---- MODULE Spec2Model ----
(***************************************************************************)
(* Model of the FIDL wire-format transformer (transformer.cc): the         *)
(* byte-region cursor SrcDst, the Position record and the recursive        *)
(* engine Transformer that rewrites a v1 message into the old layout.      *)
(*                                                                         *)
(* The engine never reads the destination, so one call is modelled as the  *)
(* list of cursor operations the recursion issues (computed by the         *)
(* operators named after the methods) and the state machine applies them   *)
(* one at a time to the SrcDst object.                                     *)
(***************************************************************************)
EXTENDS Integers, Sequences, FiniteSets, TLC

(***************************************************************************)
(* Status codes and wire-format constants (fidl.h).                        *)
(***************************************************************************)
ZX_OK == 0
ZX_ERR_BAD_STATE == 0 - 20
ZX_ERR_INVALID_ARGS == 0 - 10
ZX_ERR_BUFFER_TOO_SMALL == 0 - 789

FIDL_TRANSFORMATION_NONE == 0
FIDL_TRANSFORMATION_V1_TO_OLD == 1

(***************************************************************************)
(* uint32_t arithmetic.  A uint32_t is kept as the 32-bit pattern read as  *)
(* a two's complement number: values of 2^31 and above are the negative    *)
(* numbers, so that sums and differences wrap as they do in the code.      *)
(***************************************************************************)
MaxI32 == 2147483647
MinI32 == (0 - MaxI32) - 1

Add32(a, b) ==
  IF a >= 0 /\ b >= 0 /\ a > MaxI32 - b THEN ((a - MaxI32) - 1) + ((b - MaxI32) - 1)
  ELSE IF a < 0 /\ b < 0 /\ a < MinI32 - b THEN ((a + MaxI32) + 1) + ((b + MaxI32) + 1)
  ELSE a + b

Neg32(a) == IF a = MinI32 THEN MinI32 ELSE 0 - a

Sub32(a, b) == Add32(a, Neg32(b))

\* unsigned comparison of two 32-bit patterns
ULt(a, b) == IF (a >= 0) = (b >= 0) THEN a < b ELSE b < 0

ULe(a, b) == a = b \/ ULt(a, b)

RECURSIVE Mul32(_, _)
Mul32(a, k) == IF k = 0 THEN 0 ELSE Add32(a, Mul32(a, k - 1))

\* FIDL_ALIGN(a) = ((a) + 7) & ~7u
FIDL_ALIGN(a) == LET s == Add32(a, 7) IN s - (s % 8)

\* FIDL_ELEM_ALIGN(a)
FIDL_ELEM_ALIGN(a) ==
  IF a < 3 THEN a
  ELSE IF a <= 4 THEN (a + 3) - ((a + 3) % 4)
  ELSE (a + 7) - ((a + 7) % 8)

(***************************************************************************)
(* Bytes.                                                                  *)
(***************************************************************************)
Rep(b, n) == [k \in 1..n |-> b]

Zero(n) == Rep(0, n)

\* little-endian encoding of a value below 2^31
LE32(v) == << v % 256, (v \div 256) % 256, (v \div 65536) % 256, (v \div 16777216) % 256 >>

LE64(v) == LE32(v) \o Zero(4)

FIDL_ALLOC_PRESENT == Rep(255, 8)
FIDL_ALLOC_ABSENT == Rep(0, 8)

(***************************************************************************)
(* Type descriptors (coding tables).  A descriptor is named by a string;   *)
(* "null" is the absent descriptor (nullptr).  The v1_ tables describe the *)
(* v1 layout of a type and link to the old-layout table through alt_type;  *)
(* a record field links to its counterpart through alt_field, the index of *)
(* that field in the counterpart's field list (0 is nullptr).  A union     *)
(* table describes the static union in both tables: fields, data_offset    *)
(* and size are those of the old layout.                                   *)
(***************************************************************************)
FidlStructField(type, offset, padding, alt_field) ==
  [type |-> type, offset |-> offset, padding |-> padding, alt_field |-> alt_field]

FidlUnionField(type, padding, xunion_ordinal) ==
  [type |-> type, padding |-> padding, xunion_ordinal |-> xunion_ordinal]

FidlCodedStruct(fields, field_count, size, alt_type) ==
  [type_tag |-> "kFidlTypeStruct", fields |-> fields, field_count |-> field_count,
   size |-> size, alt_type |-> alt_type]

FidlCodedStructPointer(struct_type) ==
  [type_tag |-> "kFidlTypeStructPointer", struct_type |-> struct_type]

FidlCodedUnion(fields, field_count, data_offset, size, alt_type) ==
  [type_tag |-> "kFidlTypeUnion", fields |-> fields, field_count |-> field_count,
   data_offset |-> data_offset, size |-> size, alt_type |-> alt_type]

FidlCodedVector(element, element_size, alt_type) ==
  [type_tag |-> "kFidlTypeVector", element |-> element, element_size |-> element_size,
   alt_type |-> alt_type]

FidlCodedString == [type_tag |-> "kFidlTypeString"]

FidlCodedHandle == [type_tag |-> "kFidlTypeHandle"]

FidlCodedTable == [type_tag |-> "kFidlTypeTable"]

FidlCodedXUnion == [type_tag |-> "kFidlTypeXUnion"]

FidlCodedUnionPointer(union_type) ==
  [type_tag |-> "kFidlTypeUnionPointer", union_type |-> union_type]

FidlCodedArray(element, array_size, element_size, alt_type) ==
  [type_tag |-> "kFidlTypeArray", element |-> element, array_size |-> array_size,
   element_size |-> element_size, alt_type |-> alt_type]

FidlCodedArrayNew(element, element_count, element_size, element_padding) ==
  [element |-> element, element_count |-> element_count, element_size |-> element_size,
   element_padding |-> element_padding]

\* union UnionSize8Aligned4 { uint8; uint8; uint32 variant; }
UnionSize8Aligned4Fields(v) ==
  << FidlUnionField("null", 3, 286331153),
     FidlUnionField("null", 3, 572662306),
     FidlUnionField("null", 0, 2143482075) >>

\* union UnionSize16Aligned4 { uint8; uint8; uint8; array<uint8>:6 variant; }
UnionSize16Aligned4Fields(v) ==
  << FidlUnionField("null", 7, 286331154),
     FidlUnionField("null", 7, 572662307),
     FidlUnionField("null", 7, 858993460),
     FidlUnionField("null", 2, 550622143) >>

\* union UnionSize24Alignement8 { uint8; uint8; uint8; StructSize16Alignement8 variant; }
UnionSize24Alignement8Fields(v) ==
  << FidlUnionField("null", 15, 286331155),
     FidlUnionField("null", 15, 572662308),
     FidlUnionField("null", 15, 858993461),
     FidlUnionField("null", 0, 872699291) >>

\* union UnionOfUnion { uint8; UnionSize8Aligned4; UnionSize16Aligned4; UnionSize24Alignement8; }
UnionOfUnionFields(v) ==
  << FidlUnionField("null", 23, 286331156),
     FidlUnionField(v \o "UnionSize8Aligned4", 16, 548068704),
     FidlUnionField(v \o "UnionSize16Aligned4", 12, 1413567300),
     FidlUnionField(v \o "UnionSize24Alignement8", 0, 108145951) >>

\* union UnionWithVector { uint8; vector<uint8>; string;
\*   vector<StructSize3Alignment1>; vector<StructSize3Alignment2>; vector<handle>;
\*   array<StructSize3Alignment1>:2; array<StructSize3Alignment2>:2;
\*   vector<UnionSize8Aligned4>; }
UnionWithVectorFields(v) ==
  << FidlUnionField("null", 15, 286331157),
     FidlUnionField(v \o "VectorOfUint8", 0, 2042875053),
     FidlUnionField(v \o "String", 0, 993084216),
     FidlUnionField(v \o "VectorOfStructSize3Alignment1", 0, 1270955228),
     FidlUnionField(v \o "VectorOfStructSize3Alignment2", 0, 487107132),
     FidlUnionField(v \o "VectorOfHandle", 0, 1193192054),
     FidlUnionField(v \o "ArrayOfStructSize3Alignment1", 10, 1587587088),
     FidlUnionField("null", 8, 1559803661),
     FidlUnionField(v \o "VectorOfUnionSize8Aligned4", 0, 729189425) >>

\* a union whose first variant was built by the constructor that takes no
\* ordinal, which stores xunion_ordinal 0: { uint8; uint32 variant; }
UnionZeroOrdinalFields(v) ==
  << FidlUnionField("null", 3, 0),
     FidlUnionField("null", 0, 2143482075) >>

\* struct SandwichN { uint32 before; <union> union; uint32 after; }: the v1
\* layout holds the 24-byte xunion at offset 8, the old layout the static
\* union at its own alignment.
V1Sandwich(union, alt) ==
  FidlCodedStruct(<< FidlStructField("null", 4, 4, 0),
                     FidlStructField(union, 8, 0, 2),
                     FidlStructField("null", 36, 4, 0) >>, 3, 40, alt)

OldSandwich(union, union_offset, union_size, size, alt) ==
  FidlCodedStruct(<< FidlStructField("null", 4, union_offset - 4, 0),
                     FidlStructField(union, union_offset, 0, 2),
                     FidlStructField("null", union_offset + union_size + 4,
                                     size - (union_offset + union_size + 4), 0) >>,
                  3, size, alt)

TypeNames ==
  { "v1_UnionSize8Aligned4", "UnionSize8Aligned4",
    "v1_UnionSize16Aligned4", "UnionSize16Aligned4",
    "v1_UnionSize24Alignement8", "UnionSize24Alignement8",
    "v1_UnionOfUnion", "UnionOfUnion",
    "v1_UnionWithVector", "UnionWithVector",
    "v1_VectorOfUint8", "VectorOfUint8", "v1_String", "String",
    "v1_Sandwich1", "Sandwich1", "v1_Sandwich2", "Sandwich2",
    "v1_Sandwich3", "Sandwich3", "v1_Sandwich5", "Sandwich5",
    "v1_Sandwich6", "Sandwich6", "v1_Sandwich7", "Sandwich7",
    "v1_Sandwich1Ptr", "Sandwich1Ptr",
    "v1_TwoVectors", "TwoVectors", "v1_StringAndVector", "StringAndVector",
    "v1_Plain", "Plain", "v1_Wrapped", "Wrapped",
    "v1_VectorOfStructSize3Alignment1", "VectorOfStructSize3Alignment1",
    "v1_VectorOfStructSize3Alignment2", "VectorOfStructSize3Alignment2",
    "Handle", "v1_VectorOfHandle", "VectorOfHandle",
    "v1_VectorOfUnionSize8Aligned4", "VectorOfUnionSize8Aligned4",
    "Table", "XUnion", "v1_UnionSize8Aligned4Ptr", "UnionSize8Aligned4Ptr",
    "v1_HasTable", "HasTable", "v1_HasXUnion", "HasXUnion",
    "v1_HasUnionPointer", "HasUnionPointer",
    "v1_StructSize3Alignment1", "StructSize3Alignment1",
    "v1_ArrayOfStructSize3Alignment1", "ArrayOfStructSize3Alignment1",
    "v1_UnionZeroOrdinal", "UnionZeroOrdinal", "v1_SandwichZero", "SandwichZero",
    "v1_HasHandle", "HasHandle" }

Types ==
  [ name \in TypeNames |->
    CASE name = "v1_UnionSize8Aligned4" ->
           FidlCodedUnion(UnionSize8Aligned4Fields("v1_"), 3, 4, 8, "UnionSize8Aligned4")
      [] name = "UnionSize8Aligned4" ->
           FidlCodedUnion(UnionSize8Aligned4Fields(""), 3, 4, 8, "v1_UnionSize8Aligned4")
      [] name = "v1_UnionSize16Aligned4" ->
           FidlCodedUnion(UnionSize16Aligned4Fields("v1_"), 4, 4, 12, "UnionSize16Aligned4")
      [] name = "UnionSize16Aligned4" ->
           FidlCodedUnion(UnionSize16Aligned4Fields(""), 4, 4, 12, "v1_UnionSize16Aligned4")
      [] name = "v1_UnionSize24Alignement8" ->
           FidlCodedUnion(UnionSize24Alignement8Fields("v1_"), 4, 8, 24, "UnionSize24Alignement8")
      [] name = "UnionSize24Alignement8" ->
           FidlCodedUnion(UnionSize24Alignement8Fields(""), 4, 8, 24, "v1_UnionSize24Alignement8")
      [] name = "v1_UnionOfUnion" ->
           FidlCodedUnion(UnionOfUnionFields("v1_"), 4, 8, 32, "UnionOfUnion")
      [] name = "UnionOfUnion" ->
           FidlCodedUnion(UnionOfUnionFields(""), 4, 8, 32, "v1_UnionOfUnion")
      [] name = "v1_UnionWithVector" ->
           FidlCodedUnion(UnionWithVectorFields("v1_"), 9, 8, 24, "UnionWithVector")
      [] name = "UnionWithVector" ->
           FidlCodedUnion(UnionWithVectorFields(""), 9, 8, 24, "v1_UnionWithVector")
      [] name = "v1_VectorOfUint8" -> FidlCodedVector("null", 1, "VectorOfUint8")
      [] name = "VectorOfUint8" -> FidlCodedVector("null", 1, "v1_VectorOfUint8")
      [] name = "v1_String" -> FidlCodedString
      [] name = "String" -> FidlCodedString
      [] name = "v1_Sandwich1" -> V1Sandwich("v1_UnionSize8Aligned4", "Sandwich1")
      [] name = "Sandwich1" -> OldSandwich("UnionSize8Aligned4", 4, 8, 16, "v1_Sandwich1")
      [] name = "v1_Sandwich2" -> V1Sandwich("v1_UnionSize16Aligned4", "Sandwich2")
      [] name = "Sandwich2" -> OldSandwich("UnionSize16Aligned4", 4, 12, 20, "v1_Sandwich2")
      [] name = "v1_Sandwich3" -> V1Sandwich("v1_UnionSize24Alignement8", "Sandwich3")
      [] name = "Sandwich3" -> OldSandwich("UnionSize24Alignement8", 8, 24, 40, "v1_Sandwich3")
      [] name = "v1_Sandwich5" -> V1Sandwich("v1_UnionOfUnion", "Sandwich5")
      [] name = "Sandwich5" -> OldSandwich("UnionOfUnion", 8, 32, 48, "v1_Sandwich5")
      [] name = "v1_Sandwich6" -> V1Sandwich("v1_UnionWithVector", "Sandwich6")
      [] name = "Sandwich6" -> OldSandwich("UnionWithVector", 8, 24, 40, "v1_Sandwich6")
      \* struct Sandwich7 { uint32 before; Sandwich1? opt_sandwich1; uint32 after; }
      [] name = "v1_Sandwich7" ->
           FidlCodedStruct(<< FidlStructField("null", 4, 4, 0),
                              FidlStructField("v1_Sandwich1Ptr", 8, 0, 2),
                              FidlStructField("null", 20, 4, 0) >>, 3, 24, "Sandwich7")
      [] name = "Sandwich7" ->
           FidlCodedStruct(<< FidlStructField("null", 4, 4, 0),
                              FidlStructField("Sandwich1Ptr", 8, 0, 2),
                              FidlStructField("null", 20, 4, 0) >>, 3, 24, "v1_Sandwich7")
      [] name = "v1_Sandwich1Ptr" -> FidlCodedStructPointer("v1_Sandwich1")
      [] name = "Sandwich1Ptr" -> FidlCodedStructPointer("Sandwich1")
      \* struct TwoVectors { vector<uint8> a; vector<uint8> b; }
      [] name = "v1_TwoVectors" ->
           FidlCodedStruct(<< FidlStructField("v1_VectorOfUint8", 0, 0, 1),
                              FidlStructField("v1_VectorOfUint8", 16, 0, 2) >>, 2, 32, "TwoVectors")
      [] name = "TwoVectors" ->
           FidlCodedStruct(<< FidlStructField("VectorOfUint8", 0, 0, 1),
                              FidlStructField("VectorOfUint8", 16, 0, 2) >>, 2, 32, "v1_TwoVectors")
      \* struct StringAndVector { uint32 before; string s; vector<uint8> v; }
      [] name = "v1_StringAndVector" ->
           FidlCodedStruct(<< FidlStructField("null", 4, 4, 0),
                              FidlStructField("v1_String", 8, 0, 2),
                              FidlStructField("v1_VectorOfUint8", 24, 0, 3) >>, 3, 40,
                           "StringAndVector")
      [] name = "StringAndVector" ->
           FidlCodedStruct(<< FidlStructField("null", 4, 4, 0),
                              FidlStructField("String", 8, 0, 2),
                              FidlStructField("VectorOfUint8", 24, 0, 3) >>, 3, 40,
                           "v1_StringAndVector")
      \* struct Plain { uint32 a; uint64 b; }: no coded field at all
      [] name = "v1_Plain" -> FidlCodedStruct(<< >>, 0, 16, "Plain")
      [] name = "Plain" -> FidlCodedStruct(<< >>, 0, 16, "v1_Plain")
      \* struct Wrapped { uint64 x; Sandwich1 inner; }: a record in a record
      [] name = "v1_Wrapped" ->
           FidlCodedStruct(<< FidlStructField("null", 8, 0, 0),
                              FidlStructField("v1_Sandwich1", 8, 0, 2) >>, 2, 48, "Wrapped")
      [] name = "Wrapped" ->
           FidlCodedStruct(<< FidlStructField("null", 8, 0, 0),
                              FidlStructField("Sandwich1", 8, 0, 2) >>, 2, 24, "v1_Wrapped")
      \* the other vectors of UnionWithVector; struct StructSize3Alignment1
      \* { uint8; uint8; uint8; } has a table without fields
      [] name = "v1_StructSize3Alignment1" -> FidlCodedStruct(<< >>, 0, 3, "StructSize3Alignment1")
      [] name = "StructSize3Alignment1" -> FidlCodedStruct(<< >>, 0, 3, "v1_StructSize3Alignment1")
      [] name = "v1_VectorOfStructSize3Alignment1" ->
           FidlCodedVector("v1_StructSize3Alignment1", 3, "VectorOfStructSize3Alignment1")
      [] name = "VectorOfStructSize3Alignment1" ->
           FidlCodedVector("StructSize3Alignment1", 3, "v1_VectorOfStructSize3Alignment1")
      \* array<StructSize3Alignment1>:2
      [] name = "v1_ArrayOfStructSize3Alignment1" ->
           FidlCodedArray("v1_StructSize3Alignment1", 6, 3, "ArrayOfStructSize3Alignment1")
      [] name = "ArrayOfStructSize3Alignment1" ->
           FidlCodedArray("StructSize3Alignment1", 6, 3, "v1_ArrayOfStructSize3Alignment1")
      [] name = "v1_VectorOfStructSize3Alignment2" ->
           FidlCodedVector("null", 4, "VectorOfStructSize3Alignment2")
      [] name = "VectorOfStructSize3Alignment2" ->
           FidlCodedVector("null", 4, "v1_VectorOfStructSize3Alignment2")
      [] name = "Handle" -> FidlCodedHandle
      [] name = "v1_VectorOfHandle" -> FidlCodedVector("Handle", 4, "VectorOfHandle")
      [] name = "VectorOfHandle" -> FidlCodedVector("Handle", 4, "v1_VectorOfHandle")
      [] name = "v1_VectorOfUnionSize8Aligned4" ->
           FidlCodedVector("v1_UnionSize8Aligned4", 24, "VectorOfUnionSize8Aligned4")
      [] name = "VectorOfUnionSize8Aligned4" ->
           FidlCodedVector("UnionSize8Aligned4", 8, "v1_VectorOfUnionSize8Aligned4")
      \* records of one field of a kind the transformer does not support
      [] name = "Table" -> FidlCodedTable
      [] name = "XUnion" -> FidlCodedXUnion
      [] name = "v1_UnionSize8Aligned4Ptr" -> FidlCodedUnionPointer("v1_UnionSize8Aligned4")
      [] name = "UnionSize8Aligned4Ptr" -> FidlCodedUnionPointer("UnionSize8Aligned4")
      \* { uint32 before; table / xunion / UnionSize8Aligned4? x; uint32 after; }
      [] name = "v1_HasTable" ->
           FidlCodedStruct(<< FidlStructField("null", 4, 4, 0),
                              FidlStructField("Table", 8, 0, 2),
                              FidlStructField("null", 28, 4, 0) >>, 3, 32, "HasTable")
      [] name = "HasTable" ->
           FidlCodedStruct(<< FidlStructField("null", 4, 4, 0),
                              FidlStructField("Table", 8, 0, 2),
                              FidlStructField("null", 28, 4, 0) >>, 3, 32, "v1_HasTable")
      [] name = "v1_HasXUnion" -> V1Sandwich("XUnion", "HasXUnion")
      [] name = "HasXUnion" -> V1Sandwich("XUnion", "v1_HasXUnion")
      [] name = "v1_HasUnionPointer" ->
           V1Sandwich("v1_UnionSize8Aligned4Ptr", "HasUnionPointer")
      [] name = "HasUnionPointer" ->
           OldSandwich("UnionSize8Aligned4Ptr", 8, 8, 24, "v1_HasUnionPointer")
      [] name = "v1_UnionZeroOrdinal" ->
           FidlCodedUnion(UnionZeroOrdinalFields("v1_"), 2, 4, 8, "UnionZeroOrdinal")
      [] name = "UnionZeroOrdinal" ->
           FidlCodedUnion(UnionZeroOrdinalFields(""), 2, 4, 8, "v1_UnionZeroOrdinal")
      [] name = "v1_SandwichZero" -> V1Sandwich("v1_UnionZeroOrdinal", "SandwichZero")
      [] name = "SandwichZero" -> OldSandwich("UnionZeroOrdinal", 4, 8, 16, "v1_SandwichZero")
      \* struct HasHandle { uint32 before; handle h; uint32 after; }
      [] name = "v1_HasHandle" ->
           FidlCodedStruct(<< FidlStructField("null", 4, 0, 0),
                              FidlStructField("Handle", 4, 0, 2),
                              FidlStructField("null", 12, 4, 0) >>, 3, 16, "HasHandle")
      [] name = "HasHandle" ->
           FidlCodedStruct(<< FidlStructField("null", 4, 0, 0),
                              FidlStructField("Handle", 4, 0, 2),
                              FidlStructField("null", 12, 4, 0) >>, 3, 16, "v1_HasHandle") ]

(***************************************************************************)
(* Position (transformer.cc): four uint32_t offsets.                       *)
(***************************************************************************)
Position(si, so, di, do) ==
  [src_inline_offset |-> si, src_out_of_line_offset |-> so,
   dst_inline_offset |-> di, dst_out_of_line_offset |-> do]

IncreaseSrcInlineOffset(position, increase) ==
  [position EXCEPT !.src_inline_offset = Add32(position.src_inline_offset, increase)]

IncreaseDstInlineOffset(position, increase) ==
  [position EXCEPT !.dst_inline_offset = Add32(position.dst_inline_offset, increase)]

\* an IncreaseInlineOffset that leaves the destination offset behind
IncreaseInlineOffset_SrcOnly(position, increase) ==
  IncreaseSrcInlineOffset(position, increase)

IncreaseInlineOffset(position, increase) ==
  IncreaseDstInlineOffset(IncreaseSrcInlineOffset(position, increase), increase)

(***************************************************************************)
(* What one call works on: env.src is the memory at src_bytes (the bytes   *)
(* really there, whatever length the caller declares), env.wild the byte   *)
(* found beyond that memory, env.ndebug says whether assert() is compiled  *)
(* out, env.past_end is what lies behind the last entry of a union's       *)
(* variant list.                                                           *)
(***************************************************************************)
SrcByte(env, i) == IF i >= 0 /\ i < Len(env.src) THEN env.src[i + 1] ELSE env.wild

SrcBytes(env, i, n) == [k \in 1..n |-> SrcByte(env, Add32(i, k - 1))]

\* the uint32_t stored little-endian at offset i
SrcU32(env, i) ==
  LET b == SrcBytes(env, i, 4) IN
  b[1] + 256 * b[2] + 65536 * b[3] + 16777216 * (IF b[4] >= 128 THEN b[4] - 256 ELSE b[4])

(***************************************************************************)
(* The cursor operations the engine issues, in order.                      *)
(***************************************************************************)
ReadOp(position, size) ==
  [op |-> "Read", src |-> position.src_inline_offset, dst |-> 0, size |-> size,
   value |-> 0, msg |-> ""]

CopyOp(position, size) ==
  [op |-> "Copy", src |-> position.src_inline_offset, dst |-> position.dst_inline_offset,
   size |-> size, value |-> 0, msg |-> ""]

\* a Pad that stops one byte short
PadOp_Short(position, size) ==
  [op |-> "Pad", src |-> 0, dst |-> position.dst_inline_offset,
   size |-> IF size > 0 THEN size - 1 ELSE 0, value |-> 0, msg |-> ""]

PadOp(position, size) ==
  [op |-> "Pad", src |-> 0, dst |-> position.dst_inline_offset, size |-> size,
   value |-> 0, msg |-> ""]

WriteOp(position, size, value) ==
  [op |-> "Write", src |-> 0, dst |-> position.dst_inline_offset, size |-> size,
   value |-> value, msg |-> ""]

SetErrorOp(error_msg) ==
  [op |-> "SetError", src |-> 0, dst |-> 0, size |-> 0, value |-> 0, msg |-> error_msg]

\* outcome of a (sub)call: the operations issued and how it ended, by a
\* return of a status or by a failed assert(), which ends the process
Return(ops, status) == [ops |-> ops, kind |-> "return", status |-> status]

Abort(ops) == [ops |-> ops, kind |-> "abort", status |-> ZX_OK]

Failed_AbortOnly(r) == r.kind = "abort"

Failed(r) == r.kind = "abort" \/ r.status # ZX_OK

Prefix(ops, r) == [r EXCEPT !.ops = ops \o r.ops]

(***************************************************************************)
(* InlineSize                                                              *)
(***************************************************************************)
InlineSize(type, wire_format, ndebug) ==
  IF type = "null" THEN [abort |-> FALSE, v |-> 8]
  ELSE LET tag == Types[type].type_tag IN
    CASE tag \in {"kFidlTypePrimitive", "kFidlTypeEnum", "kFidlTypeBits"} ->
           [abort |-> ~ndebug, v |-> 8]
      [] tag \in {"kFidlTypeStructPointer", "kFidlTypeUnionPointer"} -> [abort |-> FALSE, v |-> 8]
      [] tag \in {"kFidlTypeVector", "kFidlTypeString"} -> [abort |-> FALSE, v |-> 16]
      [] tag = "kFidlTypeStruct" -> [abort |-> FALSE, v |-> Types[type].size]
      [] tag = "kFidlTypeUnion" ->
           [abort |-> FALSE, v |-> IF wire_format = "kOld" THEN Types[type].size ELSE 24]
      [] tag = "kFidlTypeArray" -> [abort |-> FALSE, v |-> Types[type].array_size]
      [] OTHER -> [abort |-> ~ndebug, v |-> 0]

\* src_coded_union.fields[i]: the entry behind the last one is whatever
\* follows the list in memory
UnionFieldAt_Shifted(coded_union, i, env) ==
  IF i + 1 < coded_union.field_count THEN coded_union.fields[i + 2] ELSE env.past_end

UnionFieldAt(coded_union, i, env) ==
  IF i < coded_union.field_count THEN coded_union.fields[i + 1] ELSE env.past_end

\* the variant scan of TransformUnion: the index it stops at
RECURSIVE FindVariant(_, _, _, _)
FindVariant(src_coded_union, xunion_ordinal, src_field_index, env) ==
  IF ~(src_field_index <= src_coded_union.field_count) THEN src_field_index
  ELSE IF UnionFieldAt(src_coded_union, src_field_index, env).xunion_ordinal = xunion_ordinal
       THEN src_field_index
       ELSE FindVariant(src_coded_union, xunion_ordinal, src_field_index + 1, env)

(***************************************************************************)
(* Transformer: Transform, TransformStruct, TransformUnion,                *)
(* TransformString, TransformVector, TransformArray.  Each yields the      *)
(* operations it issues and its outcome.                                   *)
(***************************************************************************)
RECURSIVE Transform(_, _, _, _)
RECURSIVE TransformStruct(_, _, _, _)
RECURSIVE StructFields(_, _, _, _, _, _)
RECURSIVE TransformUnion(_, _, _)
RECURSIVE TransformVector(_, _, _, _)
RECURSIVE TransformArray(_, _, _, _, _)
RECURSIVE ArrayElements(_, _, _, _, _, _, _)

\* the type_tag switch of Transform, whose assert(false) arms return
\* ZX_ERR_BAD_STATE when assert() is compiled out
Transform(type, position, dst_size, env) ==
  IF type = "null" THEN Return(<< CopyOp(position, dst_size) >>, ZX_OK)
  ELSE LET t == Types[type]
           tag == t.type_tag IN
    CASE tag \in {"kFidlTypePrimitive", "kFidlTypeEnum", "kFidlTypeBits", "kFidlTypeHandle"} ->
           Return(<< CopyOp(position, dst_size) >>, ZX_OK)
      [] tag \in {"kFidlTypeStructPointer", "kFidlTypeUnionPointer",
                  "kFidlTypeTable", "kFidlTypeXUnion"} ->
           IF env.ndebug THEN Return(<< >>, ZX_ERR_BAD_STATE) ELSE Abort(<< >>)
      [] tag = "kFidlTypeStruct" -> TransformStruct(t, position, dst_size, env)
      [] tag = "kFidlTypeUnion" -> TransformUnion(type, position, env)
      [] tag = "kFidlTypeArray" ->
           TransformArray(FidlCodedArrayNew(t.element, t.array_size \div t.element_size,
                                            t.element_size, 0),
                          FidlCodedArrayNew(Types[t.alt_type].element,
                                            Types[t.alt_type].array_size
                                              \div Types[t.alt_type].element_size,
                                            Types[t.alt_type].element_size, 0),
                          position, Types[t.alt_type].array_size, env)
      [] tag = "kFidlTypeString" ->
           TransformVector(FidlCodedVector("null", 1, "null"),
                           FidlCodedVector("null", 1, "null"), position, env)
      [] tag = "kFidlTypeVector" -> TransformVector(t, Types[t.alt_type], position, env)
      [] OTHER -> Return(<< >>, ZX_ERR_BAD_STATE)

TransformStruct(src_coded_struct, current_position, dst_size, env) ==
  IF src_coded_struct.field_count = 0
  THEN Return(<< CopyOp(current_position, dst_size) >>, ZX_OK)
  ELSE StructFields(src_coded_struct, 0, current_position,
                    current_position.src_inline_offset,
                    Add32(current_position.dst_inline_offset, dst_size), env)

\* the field loop of TransformStruct from src_field_index on, and the
\* padding of the end
StructFields(src_coded_struct, src_field_index, current_position, src_start_of_struct, dst_end_of_src_struct, env) ==
  IF ~(src_field_index < src_coded_struct.field_count)
  THEN IF ULt(current_position.dst_inline_offset, dst_end_of_src_struct)
       THEN Return(<< PadOp(current_position,
                           Sub32(dst_end_of_src_struct, current_position.dst_inline_offset)) >>,
                   ZX_OK)
       ELSE Return(<< >>, ZX_OK)
  ELSE
    LET src_field == src_coded_struct.fields[src_field_index + 1] IN
    IF src_field.type = "null"
    THEN LET dst_field_size ==
               Add32(src_field.offset,
                     Sub32(src_start_of_struct, current_position.src_inline_offset))
         IN Prefix(<< CopyOp(current_position, dst_field_size) >>,
                   StructFields(src_coded_struct, src_field_index + 1,
                                IncreaseInlineOffset(current_position, dst_field_size),
                                src_start_of_struct, dst_end_of_src_struct, env))
    ELSE IF src_field.alt_field = 0 THEN Abort(<< >>)
    ELSE
      LET dst_field == Types[src_coded_struct.alt_type].fields[src_field.alt_field]
          padOps == IF ULt(current_position.dst_inline_offset, dst_field.offset)
                    THEN << PadOp(current_position,
                                  Sub32(dst_field.offset, current_position.dst_inline_offset)) >>
                    ELSE << >>
          field_position == [current_position EXCEPT
                               !.src_inline_offset = src_field.offset,
                               !.dst_inline_offset = dst_field.offset]
          src_size == InlineSize(src_field.type, "kV1NoEe", env.ndebug)
          dst_inline_size == InlineSize(dst_field.type, "kOld", env.ndebug)
          src_next_field_offset == Add32(field_position.src_inline_offset, src_size.v)
          dst_next_field_offset == Add32(field_position.dst_inline_offset, dst_inline_size.v)
          dst_field_size == Sub32(dst_next_field_offset, dst_field.offset)
          r == Transform(src_field.type, field_position, dst_field_size, env)
      IN IF src_size.abort \/ dst_inline_size.abort THEN Abort(padOps)
         ELSE IF Failed(r) THEN Prefix(padOps, r)
         ELSE Prefix(padOps \o r.ops,
                     StructFields(src_coded_struct, src_field_index + 1,
                                  [field_position EXCEPT
                                     !.src_inline_offset = src_next_field_offset,
                                     !.dst_inline_offset = dst_next_field_offset],
                                  src_start_of_struct, dst_end_of_src_struct, env))

TransformUnion(type, position, env) ==
  LET src_coded_union == Types[type]
      dst_coded_union == Types[src_coded_union.alt_type]
      xunion_ordinal == SrcU32(env, position.src_inline_offset)
      src_field_index == FindVariant(src_coded_union, xunion_ordinal, 0, env)
      src_field_found == src_field_index <= src_coded_union.field_count
      src_field == UnionFieldAt(src_coded_union, src_field_index, env)
      dst_field == UnionFieldAt(dst_coded_union, src_field_index, env)
      readOps == << ReadOp(position, 4) >>
      tagOps == CASE dst_coded_union.data_offset = 4 -> << WriteOp(position, 4, src_field_index) >>
                  [] dst_coded_union.data_offset = 8 -> << WriteOp(position, 8, src_field_index) >>
                  [] OTHER -> << >>
      variant_size == InlineSize(src_field.type, "kOld", env.ndebug)
      field_position ==
        Position(position.src_out_of_line_offset,
                 Add32(position.src_out_of_line_offset, variant_size.v),
                 Add32(position.dst_inline_offset, dst_coded_union.data_offset),
                 position.dst_out_of_line_offset)
      dst_field_size == Sub32(dst_coded_union.size, dst_coded_union.data_offset)
      r == Transform(src_field.type, field_position, dst_field_size, env)
      field_padding_position ==
        IncreaseDstInlineOffset(field_position, Sub32(dst_field_size, dst_field.padding))
  IN IF ~src_field_found
     THEN Return(readOps \o << SetErrorOp("ordinal has no corresponding variant") >>,
                 ZX_ERR_BAD_STATE)
     ELSE IF dst_coded_union.data_offset \notin {4, 8} /\ ~env.ndebug THEN Abort(readOps)
     ELSE IF variant_size.abort THEN Abort(readOps \o tagOps)
     ELSE IF Failed(r) THEN Prefix(readOps \o tagOps, r)
     ELSE Return(readOps \o tagOps \o r.ops
                   \o << PadOp(field_padding_position, dst_field.padding) >>, ZX_OK)

TransformVector_NoEarlyExit(src_coded_vector, dst_coded_vector, position, env) ==
  LET num_elements == SrcU32(env, position.src_inline_offset)
      headOps == << ReadOp(position, 4), ReadOp(IncreaseSrcInlineOffset(position, 8), 8),
                    CopyOp(position, 16) >>
      src_element_padding ==
        FIDL_ELEM_ALIGN(src_coded_vector.element_size) - src_coded_vector.element_size
      dst_element_padding ==
        FIDL_ELEM_ALIGN(dst_coded_vector.element_size) - dst_coded_vector.element_size
      src_vector_size ==
        FIDL_ALIGN(Mul32(num_elements, src_coded_vector.element_size + src_element_padding))
      dst_vector_size ==
        FIDL_ALIGN(Mul32(num_elements, dst_coded_vector.element_size + dst_element_padding))
  IN Prefix(headOps,
            TransformArray(FidlCodedArrayNew(src_coded_vector.element, num_elements,
                                             src_coded_vector.element_size,
                                             src_element_padding),
                           FidlCodedArrayNew(dst_coded_vector.element, num_elements,
                                             dst_coded_vector.element_size,
                                             dst_element_padding),
                           Position(position.src_out_of_line_offset,
                                    Add32(position.src_out_of_line_offset, src_vector_size),
                                    position.dst_out_of_line_offset,
                                    Add32(position.dst_out_of_line_offset, dst_vector_size)),
                           dst_vector_size, env))

TransformVector(src_coded_vector, dst_coded_vector, position, env) ==
  LET num_elements == SrcU32(env, position.src_inline_offset)
      presence == SrcBytes(env, Add32(position.src_inline_offset, 8), 8)
      headOps == << ReadOp(position, 4), ReadOp(IncreaseSrcInlineOffset(position, 8), 8),
                    CopyOp(position, 16) >>
      src_element_padding ==
        FIDL_ELEM_ALIGN(src_coded_vector.element_size) - src_coded_vector.element_size
      dst_element_padding ==
        FIDL_ELEM_ALIGN(dst_coded_vector.element_size) - dst_coded_vector.element_size
      src_vector_data_as_coded_array ==
        FidlCodedArrayNew(src_coded_vector.element, num_elements,
                          src_coded_vector.element_size, src_element_padding)
      dst_vector_data_as_coded_array ==
        FidlCodedArrayNew(dst_coded_vector.element, num_elements,
                          dst_coded_vector.element_size, dst_element_padding)
      src_vector_size ==
        FIDL_ALIGN(Mul32(num_elements, src_coded_vector.element_size + src_element_padding))
      dst_vector_size ==
        FIDL_ALIGN(Mul32(num_elements, dst_coded_vector.element_size + dst_element_padding))
      vector_data_position ==
        Position(position.src_out_of_line_offset,
                 Add32(position.src_out_of_line_offset, src_vector_size),
                 position.dst_out_of_line_offset,
                 Add32(position.dst_out_of_line_offset, dst_vector_size))
  IN IF presence # FIDL_ALLOC_PRESENT THEN Return(headOps, ZX_OK)
     ELSE Prefix(headOps,
                 TransformArray(src_vector_data_as_coded_array, dst_vector_data_as_coded_array,
                                vector_data_position, dst_vector_size, env))

TransformArray_FastPathOnly(src_coded_array, dst_coded_array, position, dst_array_size, env) ==
  Return(<< CopyOp(position, dst_array_size) >>, ZX_OK)

TransformArray(src_coded_array, dst_coded_array, position, dst_array_size, env) ==
  IF src_coded_array.element = "null"
  THEN Return(<< CopyOp(position, dst_array_size) >>, ZX_OK)
  ELSE IF src_coded_array.element_count # dst_coded_array.element_count /\ ~env.ndebug
  THEN Abort(<< >>)
  ELSE ArrayElements(src_coded_array, dst_coded_array, position, dst_array_size, 0,
                     position, env)

\* the element loop of TransformArray from element i on, and the padding
\* of the end of the elements
ArrayElements(src_coded_array, dst_coded_array, position, dst_array_size, i, element_position, env) ==
  IF ~ULt(i, src_coded_array.element_count)
  THEN Return(<< PadOp(element_position,
                      Sub32(Add32(dst_array_size, position.dst_inline_offset),
                            element_position.dst_inline_offset)) >>, ZX_OK)
  ELSE
    LET r == Transform(src_coded_array.element, element_position,
                       dst_coded_array.element_size, env)
        padding_position ==
          IncreaseDstInlineOffset(
            IncreaseSrcInlineOffset(element_position, src_coded_array.element_size),
            dst_coded_array.element_size)
        next_position ==
          IncreaseDstInlineOffset(
            IncreaseSrcInlineOffset(padding_position, src_coded_array.element_padding),
            dst_coded_array.element_padding)
    IN IF Failed(r) THEN r
       ELSE Prefix(r.ops \o << PadOp(padding_position, dst_coded_array.element_padding) >>,
                   ArrayElements(src_coded_array, dst_coded_array, position, dst_array_size,
                                 i + 1, next_position, env))

\* RunOnTopLevelStruct, as called by fidl_transform_xunion_to_union
RunOnTopLevelStruct(type, env) ==
  IF Types[type].type_tag # "kFidlTypeStruct" /\ ~env.ndebug THEN Abort(<< >>)
  ELSE LET src_coded_struct == Types[type]
           dst_coded_struct == Types[src_coded_struct.alt_type]
       IN TransformStruct(src_coded_struct,
                          Position(0, src_coded_struct.size, 0, dst_coded_struct.size),
                          dst_coded_struct.size, env)

(***************************************************************************)
(* Messages handed to the transformer: the v1 encodings of the test cases  *)
(* of runner.cc, with other payloads, other variants and other counts.     *)
(***************************************************************************)
MaxSeed == 1
MaxCount == 2
MaxCut == 2

\* n payload bytes: 09 0a 0b 0c ... for seed 0
Data(seed, n) == [i \in 1..n |-> 9 + 16 * seed + (i - 1)]

Padded(bytes) == bytes \o Zero(FIDL_ALIGN(Len(bytes)) - Len(bytes))

\* fidl_xunion_t: tag, padding, envelope (num_bytes, num_handles, presence)
XUnionHeader(ordinal, num_bytes) ==
  LE32(ordinal) \o Zero(4) \o LE32(num_bytes) \o LE32(0) \o FIDL_ALLOC_PRESENT

\* the v1 form of SandwichN: before, padding, xunion, after, padding, and
\* the out-of-line payload of the union
V1SandwichBytes(ordinal, payload) ==
  << 1, 2, 3, 4 >> \o Zero(4) \o XUnionHeader(ordinal, Len(payload))
    \o << 5, 6, 7, 8 >> \o Zero(4) \o payload

\* a vector or string: 16-byte header, then the data out of line
VectorHeader(count) == LE64(count) \o FIDL_ALLOC_PRESENT

AbsentVectorHeader == LE64(0) \o FIDL_ALLOC_ABSENT

\* the old form of SandwichN, for the union of the old-layout table type:
\* before, padding, tag, payload area, after, padding, out-of-line data
OldSandwichBytes(type, tag, payload_area, out_of_line) ==
  LET s == Types[type]
      u == Types[s.fields[2].type]
      union_offset == s.fields[2].offset
  IN << 1, 2, 3, 4 >> \o Zero(union_offset - 4) \o LE32(tag) \o Zero(u.data_offset - 4)
       \o payload_area \o << 5, 6, 7, 8 >> \o Zero(s.size - (union_offset + u.size + 4))
       \o out_of_line

\* a test case: the table of the v1 type, the v1 bytes, the old bytes the
\* tests expect for them, and whether the v1 bytes are a valid encoding
Case(name, type, src, old, valid) ==
  [name |-> name, type |-> type, src |-> src, old |-> old, valid |-> valid]

\* the first variants of every union are uint8s, the last one its test variant
SimpleUnionCases ==
  { Case("sandwich1", "v1_Sandwich1", V1SandwichBytes(2143482075, Padded(Data(s, 4))),
         OldSandwichBytes("Sandwich1", 2, Data(s, 4), << >>), TRUE) : s \in 0..MaxSeed }
  \cup { Case("sandwich1_uint8", "v1_Sandwich1", V1SandwichBytes(572662306, Padded(Data(s, 1))),
              OldSandwichBytes("Sandwich1", 1, Data(s, 1) \o Zero(3), << >>), TRUE)
          : s \in 0..MaxSeed }
  \cup { Case("sandwich2", "v1_Sandwich2", V1SandwichBytes(550622143, Padded(Data(s, 6))),
              OldSandwichBytes("Sandwich2", 3, Data(s, 6) \o Zero(2), << >>), TRUE)
          : s \in 0..MaxSeed }
  \cup { Case("sandwich3", "v1_Sandwich3", V1SandwichBytes(872699291, Data(s, 16)),
              OldSandwichBytes("Sandwich3", 3, Data(s, 16), << >>), TRUE) : s \in 0..MaxSeed }

NestedUnionCases ==
  { Case("sandwich5_case1", "v1_Sandwich5",
         V1SandwichBytes(548068704, XUnionHeader(2143482075, 8) \o Padded(Data(s, 4))),
         OldSandwichBytes("Sandwich5", 1, LE32(2) \o Data(s, 4) \o Zero(16), << >>), TRUE)
      : s \in 0..MaxSeed }
  \cup { Case("sandwich5_case2", "v1_Sandwich5",
              V1SandwichBytes(108145951, XUnionHeader(872699291, 16) \o Data(s, 16)),
              OldSandwichBytes("Sandwich5", 3, LE64(3) \o Data(s, 16), << >>), TRUE)
          : s \in 0..MaxSeed }

VectorUnionCases ==
  { Case("sandwich6_case1", "v1_Sandwich6",
         V1SandwichBytes(2042875053, VectorHeader(c) \o Padded(Data(0, c))),
         OldSandwichBytes("Sandwich6", 1, VectorHeader(c), Padded(Data(0, c))), TRUE)
      : c \in 0..MaxCount }
  \cup { Case("sandwich6_case2", "v1_Sandwich6",
              V1SandwichBytes(993084216, VectorHeader(c) \o Padded(Data(1, c))),
              OldSandwichBytes("Sandwich6", 2, VectorHeader(c), Padded(Data(1, c))), TRUE)
          : c \in 0..MaxCount }
  \cup { Case("sandwich6_case1_absent_vector", "v1_Sandwich6",
              V1SandwichBytes(2042875053, AbsentVectorHeader),
              OldSandwichBytes("Sandwich6", 1, AbsentVectorHeader, << >>), TRUE) }
  \* an absent vector whose count is not 0: no valid encoding, the header
  \* is all there is of it
  \cup { Case("absent_vector_with_count", "v1_Sandwich6",
              V1SandwichBytes(2042875053, LE64(c) \o FIDL_ALLOC_ABSENT),
              OldSandwichBytes("Sandwich6", 1, LE64(c) \o FIDL_ALLOC_ABSENT, << >>), FALSE)
          : c \in 1..MaxCount }

\* Sandwich7: before, padding, presence, after, padding, then Sandwich1
Sandwich7Bytes(presence, out_of_line) ==
  << 17, 18, 19, 20 >> \o Zero(4) \o presence \o << 33, 34, 35, 36 >> \o Zero(4)
    \o out_of_line

StructPointerCases ==
  { Case("sandwich7_case1", "v1_Sandwich7",
         Sandwich7Bytes(FIDL_ALLOC_PRESENT, V1SandwichBytes(2143482075, Padded(Data(0, 4)))),
         Sandwich7Bytes(FIDL_ALLOC_PRESENT,
                        OldSandwichBytes("Sandwich1", 2, Data(0, 4), << >>)), TRUE),
    Case("sandwich7_case2", "v1_Sandwich7",
         Sandwich7Bytes(FIDL_ALLOC_ABSENT, << >>),
         Sandwich7Bytes(FIDL_ALLOC_ABSENT, << >>), TRUE) }

\* records without any union: the two layouts are the same bytes
Same(name, type, bytes) == Case(name, type, bytes, bytes, TRUE)

PlainCases ==
  { Same("two_vectors", "v1_TwoVectors",
         VectorHeader(a) \o VectorHeader(b) \o Padded(Data(0, a)) \o Padded(Data(1, b)))
      : a \in 0..MaxCount, b \in 0..MaxCount }
  \cup { Same("one_of_two_vectors", "v1_TwoVectors",
              AbsentVectorHeader \o VectorHeader(b) \o Padded(Data(1, b)))
          : b \in 0..MaxCount }
  \cup { Same("string_and_vector", "v1_StringAndVector",
              << 1, 2, 3, 4 >> \o Zero(4) \o VectorHeader(a) \o AbsentVectorHeader
                \o Padded(Data(0, a))) : a \in 0..MaxCount }
  \cup { Same("plain", "v1_Plain", Data(s, 16)) : s \in 0..MaxSeed }

\* a Sandwich1 inside a record, at offset 8 of it; the inner record's
\* before is 01 02 03 04, or bytes that are the ordinal of its union too
NestedStructCases ==
  { Case("wrapped", "v1_Wrapped",
         Data(1, 8) \o before \o Zero(4) \o XUnionHeader(2143482075, 8)
           \o << 5, 6, 7, 8 >> \o Zero(4) \o Padded(Data(0, 4)),
         Data(1, 8) \o before \o LE32(2) \o Data(0, 4) \o << 5, 6, 7, 8 >>, TRUE)
      : before \in { << 1, 2, 3, 4 >>, LE32(2143482075) } }

\* an ordinal that no variant of UnionSize8Aligned4 carries
UnknownOrdinalCases ==
  { Case("unknown_ordinal", "v1_Sandwich1", V1SandwichBytes(o, Padded(Data(0, 4))), << >>,
         FALSE) : o \in {305419896, 0} }

\* sandwich6_case5: vector<handle>, every handle present; the envelope
\* counts them
HandleVectorCases ==
  { Case("sandwich6_case5", "v1_Sandwich6",
         << 1, 2, 3, 4 >> \o Zero(4) \o LE32(1193192054) \o Zero(4)
           \o LE32(16 + FIDL_ALIGN(4 * h)) \o LE32(h) \o FIDL_ALLOC_PRESENT
           \o << 5, 6, 7, 8 >> \o Zero(4) \o VectorHeader(h) \o Padded(Rep(255, 4 * h)),
         OldSandwichBytes("Sandwich6", 5, VectorHeader(h), Padded(Rep(255, 4 * h))), TRUE)
      : h \in 1..MaxCount }

\* the inline parts of n UnionSize8Aligned4 with variant uint32, in v1 and
\* old form, and the v1 out-of-line payloads
RECURSIVE XUnionElements(_)
XUnionElements(n) ==
  IF n = 0 THEN << >> ELSE XUnionElements(n - 1) \o XUnionHeader(2143482075, 8)

RECURSIVE XUnionPayloads(_)
XUnionPayloads(n) ==
  IF n = 0 THEN << >> ELSE XUnionPayloads(n - 1) \o Padded(Data(n - 1, 4))

RECURSIVE UnionElements(_)
UnionElements(n) ==
  IF n = 0 THEN << >> ELSE UnionElements(n - 1) \o LE32(2) \o Data(n - 1, 4)

\* sandwich6_case8: vector<UnionSize8Aligned4>
VectorOfUnionCases ==
  { Case("sandwich6_case8", "v1_Sandwich6",
         V1SandwichBytes(729189425,
                         VectorHeader(n) \o XUnionElements(n) \o XUnionPayloads(n)),
         OldSandwichBytes("Sandwich6", 8, VectorHeader(n), UnionElements(n)), TRUE)
      : n \in 1..MaxCount }

\* an unknown ordinal further down: in the inner union of Sandwich5, and
\* in the second element of the vector of sandwich6_case8
NestedUnknownOrdinalCases ==
  { Case("unknown_inner_ordinal", "v1_Sandwich5",
         V1SandwichBytes(548068704, XUnionHeader(305419896, 8) \o Padded(Data(0, 4))),
         << >>, FALSE),
    Case("unknown_element_ordinal", "v1_Sandwich6",
         V1SandwichBytes(729189425,
                         VectorHeader(2) \o XUnionHeader(2143482075, 8)
                           \o XUnionHeader(305419896, 8) \o XUnionPayloads(2)),
         << >>, FALSE) }

\* records with a field of a kind the transformer has no code for
UnsupportedCases ==
  { Case("has_table", "v1_HasTable",
         << 1, 2, 3, 4 >> \o Zero(4) \o VectorHeader(0) \o << 5, 6, 7, 8 >> \o Zero(4),
         << >>, FALSE),
    Case("has_xunion", "v1_HasXUnion", V1SandwichBytes(2143482075, Padded(Data(0, 4))),
         << >>, FALSE),
    Case("has_union_pointer", "v1_HasUnionPointer",
         V1SandwichBytes(2143482075, Padded(Data(0, 4))), << >>, FALSE) }

\* the uint8 variant of UnionSize24Alignement8: one payload byte in the 8
\* bytes of the envelope payload, for a payload area of 16 bytes
SmallVariantCases ==
  { Case("sandwich3_uint8", "v1_Sandwich3", V1SandwichBytes(286331155, Padded(Data(s, 1))),
         OldSandwichBytes("Sandwich3", 0, Data(s, 1) \o Zero(15), << >>), TRUE)
      : s \in 0..MaxSeed }

\* the padding bytes a sender left in its message: zeros, or 0xcc as in the
\* inputs of runner.c
PaddingBytes == { 0, 204 }

PaddedWith(bytes, p) == bytes \o Rep(p, FIDL_ALIGN(Len(bytes)) - Len(bytes))

\* n StructSize3Alignment1 in a vector: three bytes and one of padding each
RECURSIVE Struct3Elements(_, _)
Struct3Elements(n, p) ==
  IF n = 0 THEN << >> ELSE Struct3Elements(n - 1, p) \o Data(n - 1, 3) \o << p >>

\* sandwich6_case3: vector<StructSize3Alignment1>, and sandwich6_case6:
\* array<StructSize3Alignment1>:2
ElementCases ==
  { Case("sandwich6_case3", "v1_Sandwich6",
         V1SandwichBytes(1270955228, VectorHeader(n) \o PaddedWith(Struct3Elements(n, p), p)),
         OldSandwichBytes("Sandwich6", 3, VectorHeader(n), Padded(Struct3Elements(n, 0))),
         p = 0 \/ n = 0) : n \in 0..MaxCount, p \in PaddingBytes }
  \cup { Case("sandwich6_case6", "v1_Sandwich6",
              V1SandwichBytes(1587587088, PaddedWith(Data(0, 6), p)),
              OldSandwichBytes("Sandwich6", 6, Data(0, 6) \o Zero(10), << >>), p = 0)
          : p \in PaddingBytes }

\* vectors whose 8-byte count is no count of elements a message can hold: a
\* count of 2^32 + 1, a count of 2^30 elements of 4 bytes, and a count of
\* 2^32 - 8 bytes
HugeCountCases ==
  { Case("count_high_word", "v1_Sandwich6",
         V1SandwichBytes(2042875053,
                         LE32(1) \o LE32(1) \o FIDL_ALLOC_PRESENT \o Padded(Data(0, 1))),
         << >>, FALSE),
    Case("count_product_wraps", "v1_Sandwich6",
         V1SandwichBytes(487107132, VectorHeader(1073741824) \o Padded(Data(0, 4))),
         << >>, FALSE),
    Case("count_sum_wraps", "v1_Sandwich6",
         V1SandwichBytes(2042875053,
                         << 248, 255, 255, 255 >> \o Zero(4) \o FIDL_ALLOC_PRESENT
                           \o Data(0, 8)),
         << >>, FALSE) }

\* an xunion of ordinal 0 for a union with a variant of xunion_ordinal 0
ZeroOrdinalCases ==
  { Case("zero_ordinal", "v1_SandwichZero", V1SandwichBytes(0, Padded(Data(0, 1))),
         << >>, FALSE) }

\* a handle that is the field of a record, present or absent
HandleFieldCases ==
  { Same("has_handle", "v1_HasHandle", << 1, 2, 3, 4 >> \o h \o << 5, 6, 7, 8 >> \o Zero(4))
      : h \in { Rep(255, 4), Zero(4) } }

Cases ==
  SimpleUnionCases \cup NestedUnionCases \cup VectorUnionCases \cup StructPointerCases
    \cup PlainCases \cup NestedStructCases \cup UnknownOrdinalCases
    \cup HandleVectorCases \cup VectorOfUnionCases \cup NestedUnknownOrdinalCases
    \cup UnsupportedCases \cup SmallVariantCases \cup ElementCases \cup HugeCountCases
    \cup ZeroOrdinalCases \cup HandleFieldCases

\* the destination buffers a caller hands in: large enough for every
\* output, or of 24 bytes only
LargeCapacity == 80
SmallCapacity == 24

(***************************************************************************)
(* State.  call is the call of fidl_transform_xunion_to_union under way    *)
(* (its arguments, the memory around them and the build), plan the         *)
(* operations its recursion issues, ip the next of them; dst_bytes and     *)
(* dst_highest_offset are the SrcDst object's destination and high-water   *)
(* mark, dst_num_bytes and error_msg the caller's output variables, status *)
(* the value returned.  dst_origin, oob_read and overrun record, for every *)
(* destination byte, the operation that wrote it last, whether a source    *)
(* byte outside [0, src_num_bytes) was read and whether a byte outside the *)
(* destination buffer was written.                                         *)
(***************************************************************************)
VARIABLES call, plan, ip, phase, dst_bytes, dst_origin, dst_highest_offset,
          dst_num_bytes, error_msg, status, oob_read, overrun

vars == << call, plan, ip, phase, dst_bytes, dst_origin, dst_highest_offset,
           dst_num_bytes, error_msg, status, oob_read, overrun >>

Env(c) == [src |-> c.src, wild |-> c.wild, ndebug |-> c.ndebug, past_end |-> c.past_end]

\* the value of the caller's uint32_t before the call stores into it
UNSET == 0 - 1

Init ==
  /\ \E c \in Cases, cut \in 0..MaxCut, cap \in {LargeCapacity, SmallCapacity},
        nd \in BOOLEAN, o \in {0, 305419896}, msg \in BOOLEAN, w \in {0, 170} :
       /\ 8 * cut <= Len(c.src)
       /\ call = [name |-> c.name, type |-> c.type, src |-> c.src, old |-> c.old,
                  src_num_bytes |-> Len(c.src) - 8 * cut,
                  valid |-> c.valid /\ cut = 0,
                  capacity |-> cap, poison |-> 204, ndebug |-> nd, wild |-> w,
                  past_end |-> FidlUnionField("null", 0, o),
                  out_error_msg |-> msg]
       /\ plan = RunOnTopLevelStruct(c.type,
                   [src |-> c.src, wild |-> w, ndebug |-> nd,
                    past_end |-> FidlUnionField("null", 0, o)])
       /\ dst_bytes = Rep(204, cap)
       /\ dst_origin = Rep("none", cap)
  /\ ip = 1
  /\ phase = "running"
  /\ dst_highest_offset = 0
  /\ dst_num_bytes = UNSET
  /\ error_msg = ""
  /\ status = ZX_OK
  /\ oob_read = FALSE
  /\ overrun = FALSE

Op == plan.ops[ip]

Running == phase = "running" /\ ip <= Len(plan.ops)

\* [offset, offset + size) lies in the declared source region
InSrc(offset, size) ==
  /\ offset >= 0 /\ size >= 0
  /\ offset <= call.src_num_bytes /\ size <= call.src_num_bytes - offset

\* [offset, offset + size) lies in the destination buffer
InDst(offset, size) ==
  /\ offset >= 0 /\ size >= 0
  /\ offset <= call.capacity /\ size <= call.capacity - offset

\* memory after storing the bytes at offset
Store(mem, offset, bytes) ==
  [k \in 1..Len(mem) |->
     IF offset >= 0 /\ offset <= k - 1 /\ (k - 1) - offset < Len(bytes)
     THEN bytes[k - offset] ELSE mem[k]]

UpdateHighestOffset_Last(dst_offset) == dst_offset

UpdateHighestOffset(dst_offset) ==
  IF ULt(dst_highest_offset, dst_offset) THEN dst_offset ELSE dst_highest_offset

\* what memcpy/memset/the store of Write do to the destination
WriteDst(offset, bytes, origin) ==
  /\ dst_bytes' = Store(dst_bytes, offset, bytes)
  /\ dst_origin' = Store(dst_origin, offset, Rep(origin, Len(bytes)))
  /\ overrun' = (overrun \/ ~InDst(offset, Len(bytes)))
  /\ dst_highest_offset' = UpdateHighestOffset(Add32(offset, Len(bytes)))

\* a failed assert(), or a store of 2^31 bytes and more, ends the process
Crash ==
  /\ phase' = "aborted"
  /\ UNCHANGED << call, plan, ip, dst_bytes, dst_origin, dst_highest_offset,
                  dst_num_bytes, error_msg, status, oob_read, overrun >>

\* SrcDst::Read
Read ==
  /\ Running /\ Op.op = "Read"
  /\ oob_read' = (oob_read \/ ~InSrc(Op.src, Op.size))
  /\ ip' = ip + 1
  /\ UNCHANGED << call, plan, phase, dst_bytes, dst_origin, dst_highest_offset,
                  dst_num_bytes, error_msg, status, overrun >>

\* memcpy of 2^31 bytes and more: it overwrites the destination buffer from
\* the offset on with the bytes from the source offset on, reads and writes
\* behind both buffers and ends the process there
CopyRunaway ==
  /\ phase' = "aborted"
  /\ dst_bytes' = Store(dst_bytes, Op.dst, SrcBytes(Env(call), Op.src, call.capacity))
  /\ dst_origin' = Store(dst_origin, Op.dst, Rep("Copy", call.capacity))
  /\ oob_read' = TRUE
  /\ overrun' = TRUE
  /\ UNCHANGED << call, plan, ip, dst_highest_offset, dst_num_bytes, error_msg, status >>

\* SrcDst::Copy
Copy ==
  /\ Running /\ Op.op = "Copy"
  /\ IF ~call.ndebug /\ (Op.size = 0 \/ ~ULe(Add32(Op.src, Op.size), call.src_num_bytes))
     THEN Crash
     ELSE IF Op.size < 0 THEN CopyRunaway
     ELSE /\ WriteDst(Op.dst, SrcBytes(Env(call), Op.src, Op.size), "Copy")
          /\ oob_read' = (oob_read \/ ~InSrc(Op.src, Op.size))
          /\ ip' = ip + 1
          /\ UNCHANGED << call, plan, phase, dst_num_bytes, error_msg, status >>

\* SrcDst::Pad
Pad ==
  /\ Running /\ Op.op = "Pad"
  /\ IF Op.size < 0 THEN Crash
     ELSE /\ WriteDst(Op.dst, Zero(Op.size), "Pad")
          /\ ip' = ip + 1
          /\ UNCHANGED << call, plan, phase, dst_num_bytes, error_msg, status, oob_read >>

\* SrcDst::Write of a uint32_t or uint64_t
Write ==
  /\ Running /\ Op.op = "Write"
  /\ WriteDst(Op.dst, IF Op.size = 4 THEN LE32(Op.value) ELSE LE64(Op.value), "Write")
  /\ ip' = ip + 1
  /\ UNCHANGED << call, plan, phase, dst_num_bytes, error_msg, status, oob_read >>

\* Transformer::SetError stores through out_error_msg_, null or not
SetError ==
  /\ Running /\ Op.op = "SetError"
  /\ IF ~call.out_error_msg THEN Crash
     ELSE /\ error_msg' = Op.msg
          /\ ip' = ip + 1
          /\ UNCHANGED << call, plan, phase, dst_bytes, dst_origin, dst_highest_offset,
                          dst_num_bytes, status, oob_read, overrun >>

\* the end of fidl_transform_xunion_to_union: ~SrcDst stores the high-water
\* mark and the status is returned, unless an assert(false) of the engine
\* ended the process
Finish ==
  /\ phase = "running" /\ ip > Len(plan.ops)
  /\ IF plan.kind = "abort"
     THEN Crash
     ELSE /\ phase' = "returned"
          /\ status' = plan.status
          /\ dst_num_bytes' = dst_highest_offset
          /\ UNCHANGED << call, plan, ip, dst_bytes, dst_origin, dst_highest_offset,
                          error_msg, oob_read, overrun >>

Next == Read \/ Copy \/ Pad \/ Write \/ SetError \/ Finish

Spec == Init /\ [][Next]_vars

TypeOK ==
  /\ phase \in {"running", "returned", "aborted"}
  /\ Len(dst_bytes) = call.capacity
  /\ \A k \in 1..Len(dst_bytes) : dst_bytes[k] \in 0..255

(***************************************************************************)
(* The old-to-v1 direction.  The repository's tests call it, its sources   *)
(* do not define it: it is modelled from its specification, as the reverse *)
(* of the rules above.  A call yields the v1 inline bytes of the object,   *)
(* the v1 out-of-line bytes it allocated, and the old out-of-line offset   *)
(* advanced by what it consumed.                                           *)
(***************************************************************************)
Slice(src, offset, n) ==
  [k \in 1..n |-> IF offset + k <= Len(src) THEN src[offset + k] ELSE 0]

Within(src, offset, n) == offset >= 0 /\ n >= 0 /\ offset + n <= Len(src)

\* what a call produced: the v1 inline bytes, the v1 out-of-line bytes, the
\* old out-of-line offset reached and the handles of what it wrote
Produced(ok, inl, ool, so, handles) ==
  [ok |-> ok, inl |-> inl, ool |-> ool, so |-> so, handles |-> handles]

FIDL_HANDLE_PRESENT == Rep(255, 4)

\* the envelope of an xunion whose payload is present
Envelope_NoHandles(num_bytes, num_handles) ==
  LE32(num_bytes) \o LE32(0) \o FIDL_ALLOC_PRESENT

Envelope(num_bytes, num_handles) ==
  LE32(num_bytes) \o LE32(num_handles) \o FIDL_ALLOC_PRESENT

\* the element of a set of one
The(S) == CHOOSE x \in S : TRUE

\* bytes, zero-padded to the next 8-byte boundary
Aligned(bytes) == bytes \o Zero(FIDL_ALIGN(Len(bytes)) - Len(bytes))

RECURSIVE OldToV1(_, _, _, _, _)
RECURSIVE OldToV1Fields(_, _, _, _, _, _)
RECURSIVE OldToV1Elements(_, _, _, _, _, _)

\* the fields of an old record from index i on; cur is the old offset reached
\* in the record, acc what the fields before i produced
OldToV1Fields(src_coded_struct, i, src, start, cur, acc) ==
  LET dst_coded_struct == Types[src_coded_struct.alt_type] IN
  IF i > src_coded_struct.field_count
  THEN Produced(acc.ok, acc.inl \o Zero(dst_coded_struct.size - Len(acc.inl)), acc.ool, acc.so,
                acc.handles)
  ELSE
    LET src_field == src_coded_struct.fields[i] IN
    IF src_field.type = "null"
    THEN The({ OldToV1Fields(src_coded_struct, i + 1, src, start, src_field.offset, next)
               : next \in { Produced(acc.ok /\ Within(src, start + cur, src_field.offset - cur),
                                     acc.inl \o Slice(src, start + cur, src_field.offset - cur),
                                     acc.ool, acc.so, acc.handles) } })
    ELSE
      LET dst_field == dst_coded_struct.fields[src_field.alt_field]
          size == IF Types[src_field.type].type_tag = "kFidlTypeHandle" THEN 4
                  ELSE InlineSize(src_field.type, "kOld", TRUE).v
      IN The({ OldToV1Fields(src_coded_struct, i + 1, src, start, src_field.offset + size, next)
               : next \in
                   { Produced(acc.ok /\ sub.ok,
                              acc.inl \o Zero(dst_field.offset - Len(acc.inl)) \o sub.inl,
                              acc.ool \o sub.ool, sub.so, acc.handles + sub.handles)
                     : sub \in { OldToV1(src_field.type, src, start + src_field.offset,
                                         acc.so, size) } } })

\* the elements of an old vector from index i on (counted from 0), each in
\* a slot of FIDL_ELEM_ALIGN(element_size) bytes; acc.inl collects the v1
\* elements, acc.ool what they allocated
OldToV1Elements(src_coded_vector, count, i, src, start, acc) ==
  LET dst_coded_vector == Types[src_coded_vector.alt_type]
      src_stride == FIDL_ELEM_ALIGN(src_coded_vector.element_size)
      dst_stride == FIDL_ELEM_ALIGN(dst_coded_vector.element_size)
  IN IF i >= count THEN Produced(acc.ok, Aligned(acc.inl), acc.ool, acc.so, acc.handles)
     ELSE The({ OldToV1Elements(src_coded_vector, count, i + 1, src, start, next)
                : next \in
                    { Produced(acc.ok /\ sub.ok,
                               acc.inl \o sub.inl \o Zero(dst_stride - Len(sub.inl)),
                               acc.ool \o sub.ool, sub.so, acc.handles + sub.handles)
                      : sub \in { OldToV1(src_coded_vector.element, src,
                                          start + i * src_stride, acc.so,
                                          src_coded_vector.element_size) } } })

OldToV1(type, src, si, so, size) ==
  IF type = "null"
  THEN Produced(Within(src, si, size), Slice(src, si, size), << >>, so, 0)
  ELSE
    LET t == Types[type] IN
    CASE t.type_tag = "kFidlTypeStruct" ->
           IF t.field_count = 0
           THEN Produced(Within(src, si, t.size), Slice(src, si, t.size), << >>, so, 0)
           ELSE OldToV1Fields(t, 1, src, si, 0, Produced(TRUE, << >>, << >>, so, 0))
      [] t.type_tag = "kFidlTypeHandle" ->
           Produced(Within(src, si, 4), Slice(src, si, 4), << >>, so,
                    IF Slice(src, si, 4) = FIDL_HANDLE_PRESENT THEN 1 ELSE 0)
      \* an array of elements without fields: the same bytes in both layouts
      [] t.type_tag = "kFidlTypeArray" ->
           Produced(Within(src, si, t.array_size) /\ Types[t.element].field_count = 0,
                    Slice(src, si, t.array_size), << >>, so, 0)
      [] t.type_tag = "kFidlTypeStructPointer" ->
           LET presence == Slice(src, si, 8)
               s == Types[t.struct_type]
           IN IF presence # FIDL_ALLOC_PRESENT
              THEN Produced(Within(src, si, 8) /\ presence = FIDL_ALLOC_ABSENT,
                            presence, << >>, so, 0)
              ELSE The({ Produced(sub.ok, presence, Aligned(sub.inl) \o sub.ool, sub.so,
                                  sub.handles)
                         : sub \in { OldToV1(t.struct_type, src, so,
                                             so + FIDL_ALIGN(s.size), s.size) } })
      [] t.type_tag = "kFidlTypeUnion" ->
           LET tag == SrcU32([src |-> src, wild |-> 0], si)
               known == Within(src, si, t.size) /\ tag >= 0 /\ tag < t.field_count
               field == t.fields[IF known THEN tag + 1 ELSE 1]
               payload_size == IF field.type = "null"
                               THEN (t.size - t.data_offset) - field.padding
                               ELSE InlineSize(field.type, "kOld", TRUE).v
           IN The({ Produced(known /\ sub.ok,
                             LE32(field.xunion_ordinal) \o Zero(4)
                               \o Envelope(FIDL_ALIGN(Len(sub.inl)) + Len(sub.ool),
                                           sub.handles),
                             Aligned(sub.inl) \o sub.ool, sub.so, sub.handles)
                    : sub \in { OldToV1(field.type, src, si + t.data_offset, so,
                                        payload_size) } })
      [] t.type_tag \in {"kFidlTypeVector", "kFidlTypeString"} ->
           LET count == SrcU32([src |-> src, wild |-> 0], si)
               presence == Slice(src, si + 8, 8)
               raw == t.type_tag = "kFidlTypeString" \/ t.element = "null"
               stride == IF t.type_tag = "kFidlTypeString" THEN 1
                         ELSE FIDL_ELEM_ALIGN(t.element_size)
               n == FIDL_ALIGN(count * stride)
           IN IF presence # FIDL_ALLOC_PRESENT
              THEN Produced(Within(src, si, 16) /\ presence = FIDL_ALLOC_ABSENT,
                            Slice(src, si, 16), << >>, so, 0)
              ELSE IF ~(Within(src, si, 16) /\ count >= 0 /\ Within(src, so, n))
              THEN Produced(FALSE, << >>, << >>, so, 0)
              ELSE IF raw
              THEN Produced(TRUE, Slice(src, si, 16), Slice(src, so, n), so + n, 0)
              ELSE The({ Produced(elements.ok, Slice(src, si, 16),
                                  elements.inl \o elements.ool, elements.so,
                                  elements.handles)
                         : elements \in
                             { OldToV1Elements(t, count, 0, src, so,
                                               Produced(TRUE, << >>, << >>, so + n, 0)) } })
      [] OTHER -> Produced(FALSE, << >>, << >>, so, 0)

\* the old-to-v1 call on a whole message of the old type: status and output
fidl_transform_union_to_xunion(type, src) ==
  The({ [status |-> IF r.ok THEN ZX_OK ELSE ZX_ERR_BAD_STATE, bytes |-> r.inl \o r.ool]
        : r \in { OldToV1(type, src, 0, FIDL_ALIGN(Types[type].size), Types[type].size) } })

(***************************************************************************)
(* fidl_transform, the entry point that takes the direction.  transformer.h *)
(* declares it and runner.cc calls it; transformer.cc defines the v1-to-old *)
(* entry point only, so the switch on the direction and the old-to-v1      *)
(* branch are modelled from the specification.  A call starts in phase     *)
(* "called" and is dispatched in one step; the v1-to-old branch then runs   *)
(* the operations of RunOnTopLevelStruct as above.                         *)
(***************************************************************************)
FIDL_TRANSFORMATION_OLD_TO_V1 == 2

\* a value of fidl_transformation_t that names no direction
UnknownTransformation == 3

Transformations ==
  { FIDL_TRANSFORMATION_NONE, FIDL_TRANSFORMATION_V1_TO_OLD, FIDL_TRANSFORMATION_OLD_TO_V1,
    UnknownTransformation }

\* a destination that holds every v1 message of the cases
V1Capacity == 160

\* a top-level type that is no record: the union of Sandwich1 by itself
NotARecordCases ==
  { Case("not_a_record", "v1_UnionSize8Aligned4",
         XUnionHeader(2143482075, 8) \o Padded(Data(0, 4)), LE32(2) \o Data(0, 4), FALSE) }

\* RunOnTopLevelStruct built with NDEBUG on a type that is no record reads
\* the members of coded_struct from another member of the union: the call
\* may end the process or return, and what it returns is not determined
PunnedOutcomes ==
  { Abort(<< >>), Return(<< >>, ZX_OK), Return(<< >>, ZX_ERR_BAD_STATE) }

InitTransform ==
  /\ \E c \in Cases \cup NotARecordCases, t \in Transformations, nd \in BOOLEAN :
       /\ t = FIDL_TRANSFORMATION_OLD_TO_V1 => c.old # << >>
       /\ call = [name |-> c.name, transformation |-> t,
                  type |-> IF t = FIDL_TRANSFORMATION_OLD_TO_V1
                           THEN Types[c.type].alt_type ELSE c.type,
                  src |-> IF t = FIDL_TRANSFORMATION_OLD_TO_V1 THEN c.old ELSE c.src,
                  old |-> c.old, v1 |-> c.src,
                  src_num_bytes |-> IF t = FIDL_TRANSFORMATION_OLD_TO_V1
                                    THEN Len(c.old) ELSE Len(c.src),
                  valid |-> c.valid,
                  capacity |-> V1Capacity, poison |-> 204, ndebug |-> nd, wild |-> 0,
                  past_end |-> FidlUnionField("null", 0, 0),
                  out_error_msg |-> TRUE]
  /\ plan = Return(<< >>, ZX_OK)
  /\ dst_bytes = Rep(204, V1Capacity)
  /\ dst_origin = Rep("none", V1Capacity)
  /\ ip = 1
  /\ phase = "called"
  /\ dst_highest_offset = 0
  /\ dst_num_bytes = UNSET
  /\ error_msg = ""
  /\ status = ZX_OK
  /\ oob_read = FALSE
  /\ overrun = FALSE

TransformNone_Copies ==
  /\ phase = "called" /\ call.transformation = FIDL_TRANSFORMATION_NONE
  /\ phase' = "returned"
  /\ status' = ZX_OK
  /\ dst_bytes' = Store(dst_bytes, 0, call.src)
  /\ dst_origin' = Store(dst_origin, 0, Rep("Copy", Len(call.src)))
  /\ dst_highest_offset' = Len(call.src)
  /\ dst_num_bytes' = Len(call.src)
  /\ UNCHANGED << call, plan, ip, error_msg, oob_read, overrun >>

\* case FIDL_TRANSFORMATION_NONE: nothing to do
TransformNone ==
  /\ phase = "called" /\ call.transformation = FIDL_TRANSFORMATION_NONE
  /\ phase' = "returned"
  /\ status' = ZX_OK
  /\ dst_num_bytes' = 0
  /\ UNCHANGED << call, plan, ip, dst_bytes, dst_origin, dst_highest_offset, error_msg,
                  oob_read, overrun >>

\* case FIDL_TRANSFORMATION_V1_TO_OLD: fidl_transform_xunion_to_union
TransformV1ToOld ==
  /\ phase = "called" /\ call.transformation = FIDL_TRANSFORMATION_V1_TO_OLD
  /\ plan' \in IF Types[call.type].type_tag # "kFidlTypeStruct" /\ call.ndebug
                THEN PunnedOutcomes
                ELSE { RunOnTopLevelStruct(call.type, Env(call)) }
  /\ phase' = "running"
  /\ UNCHANGED << call, ip, dst_bytes, dst_origin, dst_highest_offset, dst_num_bytes,
                  error_msg, status, oob_read, overrun >>

\* case FIDL_TRANSFORMATION_OLD_TO_V1
TransformOldToV1 ==
  /\ phase = "called" /\ call.transformation = FIDL_TRANSFORMATION_OLD_TO_V1
  /\ phase' = "returned"
  /\ IF Types[call.type].type_tag # "kFidlTypeStruct"
     THEN /\ status' = ZX_ERR_INVALID_ARGS
          /\ UNCHANGED << dst_bytes, dst_origin, dst_highest_offset, dst_num_bytes >>
     ELSE \E r \in { fidl_transform_union_to_xunion(call.type, call.src) } :
            IF r.status # ZX_OK
            THEN /\ status' = r.status
                 /\ dst_num_bytes' = 0
                 /\ UNCHANGED << dst_bytes, dst_origin, dst_highest_offset >>
            ELSE IF Len(r.bytes) > call.capacity
            THEN /\ status' = ZX_ERR_BUFFER_TOO_SMALL
                 /\ dst_num_bytes' = 0
                 /\ UNCHANGED << dst_bytes, dst_origin, dst_highest_offset >>
            ELSE /\ status' = ZX_OK
                 /\ dst_bytes' = Store(dst_bytes, 0, r.bytes)
                 /\ dst_origin' = Store(dst_origin, 0, Rep("Write", Len(r.bytes)))
                 /\ dst_highest_offset' = Len(r.bytes)
                 /\ dst_num_bytes' = Len(r.bytes)
  /\ UNCHANGED << call, plan, ip, error_msg, oob_read, overrun >>

\* default: no such direction
TransformUnknown ==
  /\ phase = "called" /\ call.transformation \notin
                           { FIDL_TRANSFORMATION_NONE, FIDL_TRANSFORMATION_V1_TO_OLD,
                             FIDL_TRANSFORMATION_OLD_TO_V1 }
  /\ phase' = "returned"
  /\ status' = ZX_ERR_INVALID_ARGS
  /\ UNCHANGED << call, plan, ip, dst_bytes, dst_origin, dst_highest_offset, dst_num_bytes,
                  error_msg, oob_read, overrun >>

NextTransform ==
  TransformNone \/ TransformV1ToOld \/ TransformOldToV1 \/ TransformUnknown
    \/ Read \/ Copy \/ Pad \/ Write \/ SetError \/ Finish

SpecTransform == InitTransform /\ [][NextTransform]_vars

(***************************************************************************)
(* Properties.                                                             *)
(***************************************************************************)
\* the call is over: it returned, or the process was ended
Done == phase # "running"

Succeeded == phase = "returned" /\ status = ZX_OK

\* the caller's buffer holds the whole of a message of n bytes
Holds(n) == n <= call.capacity

\* cmp_payload of runner.cc on the destination and the reported length
cmp_payload(expected) ==
  /\ dst_num_bytes = Len(expected)
  /\ Len(expected) <= Len(dst_bytes)
  /\ SubSeq(dst_bytes, 1, Len(expected)) = expected

\* a status that is none of those fidl.h defines
IsBadInput(s) ==
  s \notin {ZX_OK, ZX_ERR_BAD_STATE, ZX_ERR_INVALID_ARGS, ZX_ERR_BUFFER_TOO_SMALL}

\* C1: a valid v1 message m is turned into its old form with status OK, and
\* the old-to-v1 direction turns that output back into m with status OK;
\* the old form is the one whose old-to-v1 image is m, so that it survives
\* the two directions in the other order as well.
C1_RoundTrip ==
  (Done /\ call.valid /\ Holds(Len(call.old)))
    => /\ Succeeded
       /\ cmp_payload(call.old)
       /\ fidl_transform_union_to_xunion(Types[call.type].alt_type,
                                         SubSeq(dst_bytes, 1, Len(call.old)))
            = [status |-> ZX_OK, bytes |-> call.src]

\* the records {before, union, after} of the tests whose unions have raw
\* variants only, with an envelope payload (num_bytes, at offset 16) that
\* is no shorter than the payload area of the old union
RawVariantSandwich ==
  /\ call.valid /\ call.type \in {"v1_Sandwich1", "v1_Sandwich2", "v1_Sandwich3"}
  /\ Types[Types[call.type].fields[2].type].size
        - Types[Types[call.type].fields[2].type].data_offset <= SrcU32(Env(call), 16)

\* the old record the v1 bytes of such a record stand for, field by field
SandwichLayout ==
  LET s == Types[Types[call.type].alt_type]
      union_field == s.fields[2]
      u == Types[union_field.type]
      ordinal == SrcU32(Env(call), 8)
      index == CHOOSE i \in 0..(u.field_count - 1) : u.fields[i + 1].xunion_ordinal = ordinal
      variant == u.fields[index + 1]
      payload_size == (u.size - u.data_offset) - variant.padding
  IN SubSeq(call.src, 1, 4) \o Zero(union_field.offset - 4)
       \o LE32(index) \o Zero(u.data_offset - 4)
       \o SubSeq(call.src, 41, 40 + payload_size) \o Zero(variant.padding)
       \o SubSeq(call.src, 33, 36)
       \o Zero(s.size - (union_field.offset + u.size + 4))

SandwichOutput ==
  (Done /\ RawVariantSandwich /\ Holds(Types[Types[call.type].alt_type].size))
    => /\ Succeeded
       /\ cmp_payload(SandwichLayout)
       /\ dst_num_bytes = Types[Types[call.type].alt_type].size

C3_OutputLength ==
  (Succeeded /\ call.valid)
    => /\ dst_num_bytes = Len(call.old)
       /\ dst_num_bytes > 0
       /\ dst_num_bytes <= call.capacity

\* C4: after a successful transform every destination byte below the
\* reported length was written by a copy, a write or a pad, and is 0 where a
\* pad wrote it last: none keeps what the caller's buffer held.
C4_NoPoisonBelowLength ==
  Succeeded
    => \A k \in 1..Len(dst_bytes) :
         k <= dst_num_bytes
           => /\ dst_origin[k] # "none"
              /\ dst_origin[k] = "Pad" => dst_bytes[k] = 0

C4_Witness ==
  /\ Succeeded /\ call.name = "sandwich3" /\ call.capacity >= 40
  /\ dst_num_bytes = 40 /\ dst_origin[5] = "Pad" /\ dst_origin[1] = "Copy"
  /\ dst_origin[9] = "Write" /\ dst_bytes[41] = call.poison

\* the records of the tests that hold strings, vectors and plain data only
PlainRecord == call.type \in {"v1_TwoVectors", "v1_StringAndVector", "v1_Plain"}

\* C5: a valid record without unions and optional records comes out of
\* either direction with status OK as the bytes that went in.
C5_Identity ==
  (Done /\ call.valid /\ PlainRecord /\ Holds(Len(call.src)))
    => /\ Succeeded
       /\ cmp_payload(call.src)
       /\ fidl_transform_union_to_xunion(Types[call.type].alt_type, call.src)
            = [status |-> ZX_OK, bytes |-> call.src]

\* the ordinal of the message's union is that of none of its variants
UnknownOrdinal ==
  /\ call.name = "unknown_ordinal" /\ call.src_num_bytes = Len(call.src)
  /\ \A i \in 1..Types[Types[call.type].fields[2].type].field_count :
       Types[Types[call.type].fields[2].type].fields[i].xunion_ordinal
         # SrcU32(Env(call), 8)

\* C6: a message whose union ordinal is that of no variant of the union is
\* answered with the status BAD_INPUT and the message "ordinal has no
\* corresponding variant".
C6_UnknownOrdinal ==
  (Done /\ UnknownOrdinal)
    => /\ phase = "returned"
       /\ IsBadInput(status)
       /\ error_msg = "ordinal has no corresponding variant"

\* C7: no source byte outside [0, src_num_bytes) is read, and a source
\* shorter than the inline size of the record in the v1 layout is answered
\* with BAD_INPUT.
C7_ShortSource ==
  /\ ~oob_read
  /\ (Done /\ call.src_num_bytes < InlineSize(call.type, "kV1NoEe", TRUE).v)
       => (phase = "returned" /\ IsBadInput(status))

\* C8: no byte at or beyond the capacity of the destination is written, and
\* a transform whose output does not fit returns ZX_ERR_BUFFER_TOO_SMALL.
C8_SmallDestination ==
  /\ ~overrun
  /\ (Done /\ call.valid /\ ~Holds(Len(call.old)))
       => (phase = "returned" /\ status = ZX_ERR_BUFFER_TOO_SMALL)

\* C9: a record with an optional record comes out with the presence word
\* copied, nothing out of line when it is absent and the old form of the
\* record pointed to out of line when it is present, with status OK.
C9_OptionalRecord ==
  (Done /\ call.valid /\ call.type = "v1_Sandwich7" /\ Holds(Len(call.old)))
    => /\ Succeeded
       /\ SubSeq(dst_bytes, 9, 16) = SubSeq(call.src, 9, 16)
       /\ cmp_payload(call.old)

\* C10: the payload of a union that is the variant of a union is read
\* behind the 24 bytes of the inner xunion: Sandwich5 case 1 comes out as
\* outer tag 1, inner tag 2, the four payload bytes and zeros.
C10_NestedUnionPayload ==
  (Done /\ call.valid /\ call.name = "sandwich5_case1" /\ Holds(Len(call.old)))
    => /\ Succeeded
       /\ SubSeq(dst_bytes, 9, 16) = LE64(1)
       /\ SubSeq(dst_bytes, 17, 20) = LE32(2)
       /\ SubSeq(dst_bytes, 21, 24) = SubSeq(call.src, 65, 68)
       /\ SubSeq(dst_bytes, 25, 40) = Zero(16)

\* the cases with a vector whose presence word is ABSENT, and where its
\* header lies in the source and in the destination
AbsentVectorCases ==
  { "sandwich6_case1_absent_vector", "absent_vector_with_count", "one_of_two_vectors",
    "string_and_vector" }

AbsentVectorHeaderAt ==
  CASE call.name \in { "sandwich6_case1_absent_vector", "absent_vector_with_count" } ->
         [src |-> 40, dst |-> 16]
    [] call.name = "one_of_two_vectors" -> [src |-> 0, dst |-> 0]
    [] OTHER -> [src |-> 24, dst |-> 24]

\* the whole source is declared and the destination holds the old form
WholeCall ==
  /\ call.src_num_bytes = Len(call.src)
  /\ Holds(Len(call.old))

\* C11: a vector or string header is copied to the destination unchanged;
\* when its presence word is ABSENT the call goes on without reading a
\* source byte behind the data of the message and without writing a
\* destination byte for the vector: a call that returns has status ZX_OK
\* and reports exactly the old form, and a call whose only vector is the
\* absent one does return.
C11_AbsentVector ==
  (call.name \in AbsentVectorCases /\ WholeCall) =>
    /\ (\E k \in 1..(ip - 1) :
          plan.ops[k] = CopyOp(Position(AbsentVectorHeaderAt.src, 0,
                                        AbsentVectorHeaderAt.dst, 0), 16))
          => SubSeq(dst_bytes, AbsentVectorHeaderAt.dst + 1, AbsentVectorHeaderAt.dst + 16)
               = SubSeq(call.src, AbsentVectorHeaderAt.src + 1, AbsentVectorHeaderAt.src + 16)
    /\ ~oob_read
    /\ \A k \in 1..(ip - 1) :
          plan.ops[k].op \in { "Copy", "Pad", "Write" }
            => plan.ops[k].dst + plan.ops[k].size <= Len(call.old)
    /\ phase = "returned"
          => /\ status = ZX_OK
             /\ dst_num_bytes = Len(call.old)
             /\ SubSeq(dst_bytes, 1, dst_num_bytes) = call.old
    /\ (Done /\ call.name \in { "sandwich6_case1_absent_vector", "absent_vector_with_count" })
          => phase = "returned"

C11_Witness ==
  /\ call.name = "absent_vector_with_count" /\ WholeCall
  /\ phase = "returned" /\ ~call.ndebug
  /\ dst_origin[17] = "Copy" /\ dst_bytes[17] = 2 /\ dst_bytes[25] = 0
  /\ dst_num_bytes = 40

\* the unions of the call's message: the one a SandwichN holds behind before
\* and, when its variant is a union again, that one in the outer payload
IsSandwich ==
  /\ Types[call.type].type_tag = "kFidlTypeStruct"
  /\ Len(Types[call.type].fields) >= 2
  /\ Types[call.type].fields[2].type # "null"
  /\ Types[Types[call.type].fields[2].type].type_tag = "kFidlTypeUnion"

HasOrdinal(union, o) ==
  \E i \in 1..Types[union].field_count : Types[union].fields[i].xunion_ordinal = o

\* the index of the variant with ordinal o, counted from 0
VariantIndex(union, o) ==
  CHOOSE i \in 0..(Types[union].field_count - 1) :
    Types[union].fields[i + 1].xunion_ordinal = o

OuterUnion ==
  [type |-> Types[call.type].fields[2].type,
   src |-> Types[call.type].fields[2].offset,
   dst |-> Types[Types[call.type].alt_type].fields[2].offset]

UnionsOfCall ==
  IF ~IsSandwich THEN { }
  ELSE LET o == SrcU32(Env(call), 8)
           v == Types[OuterUnion.type].fields[VariantIndex(OuterUnion.type, o) + 1].type
       IN { OuterUnion }
            \cup IF /\ HasOrdinal(OuterUnion.type, o) /\ v # "null"
                    /\ Types[v].type_tag = "kFidlTypeUnion"
                 THEN { [type |-> v, src |-> 40,
                         dst |-> OuterUnion.dst
                                   + Types[Types[OuterUnion.type].alt_type].data_offset] }
                 ELSE { }

\* the little-endian value of the bytes
Value(bytes) ==
  LET RECURSIVE V(_)
      V(k) == IF k > Len(bytes) THEN 0 ELSE bytes[k] + 256 * V(k + 1)
  IN V(1)

\* C12: for an ordinal o of the union's variant list, the tag written is
\* the index i of the variant with that ordinal, in 4 bytes when the old
\* union's payload is at offset 4 and in 8 bytes when it is at offset 8;
\* the variant at index tag of the old union's list carries o again.  A
\* call that returns ZX_OK has written it.
C12_TagIsVariantIndex ==
  \A u \in UnionsOfCall :
    LET o == SrcU32(Env(call), u.src)
        old_union == Types[Types[u.type].alt_type]
        i == VariantIndex(u.type, o)
        tag == SubSeq(dst_bytes, u.dst + 1, u.dst + old_union.data_offset)
        written == \E k \in 1..(ip - 1) : plan.ops[k].op = "Write" /\ plan.ops[k].dst = u.dst
    IN (HasOrdinal(u.type, o) /\ Holds(u.dst + old_union.data_offset)) =>
         /\ written =>
               /\ old_union.data_offset \in { 4, 8 }
               /\ Value(tag) = i
               /\ \A b \in (u.dst + 1)..(u.dst + old_union.data_offset) :
                     dst_origin[b] = "Write"
               /\ old_union.fields[Value(tag) + 1].xunion_ordinal = o
         /\ Succeeded => written

\* an inner union with an 8-byte tag and an outer one, both not the first
\* variant
C12_Witness ==
  /\ call.name = "sandwich5_case2" /\ Succeeded
  /\ Cardinality(UnionsOfCall) = 2
  /\ SubSeq(dst_bytes, 9, 24) = LE64(3) \o LE64(3)

\* the operations performed so far
Performed == { k \in 1..(ip - 1) : plan.ops[k].op \in { "Copy", "Pad", "Write" } }

\* the largest dst_inline_offset + size among them, 0 when there is none
HighestEnd ==
  IF Performed = { } THEN 0
  ELSE CHOOSE e \in { plan.ops[k].dst + plan.ops[k].size : k \in Performed } :
         \A k \in Performed : plan.ops[k].dst + plan.ops[k].size <= e

\* C15: the high-water mark is 0 before the first operation and afterwards
\* the maximum of dst_inline_offset + size over the copies, pads and writes
\* performed so far (so it never decreases); a call that returns, with
\* ZX_OK or with an error, has stored it in *dst_num_bytes.
C15_HighWaterMark ==
  /\ dst_highest_offset = HighestEnd
  /\ phase = "returned" => dst_num_bytes = HighestEnd
  /\ phase = "running" => dst_num_bytes = UNSET

\* the copy of after ends below the out-of-line data written before it
C15_Witness ==
  /\ call.name = "sandwich6_case1" /\ phase = "returned"
  /\ plan.ops[Len(plan.ops)].dst + plan.ops[Len(plan.ops)].size < dst_num_bytes
  /\ dst_num_bytes = 48

\* the failing step has been taken: SetError has run, or every operation
\* before an unsupported descriptor has
StepFailed ==
  /\ plan.kind = "return" /\ plan.status # ZX_OK
  /\ ip > Len(plan.ops)

\* the bytes of after, the last field of a SandwichN, in the destination
AfterField ==
  LET fields == Types[Types[call.type].alt_type].fields IN
  IF Len(fields) = 3 /\ fields[3].type = "null"
  THEN (fields[3].offset - 4)..(fields[3].offset - 1) ELSE { }

\* C14: a failing step ends the traversal: SetError is the last operation
\* of its call, the status of the step is the status the call returns, and
\* nothing behind the failing step is copied, padded or written (the field
\* after, which every traversal that goes on reaches, stays untouched).
C14_FailureStops ==
  /\ \A k \in 1..Len(plan.ops) :
        plan.ops[k].op = "SetError"
          => k = Len(plan.ops) /\ plan.kind = "return" /\ plan.status = ZX_ERR_BAD_STATE
  /\ StepFailed =>
        /\ \A k \in Performed, b \in AfterField :
              ~(plan.ops[k].dst <= b /\ b < plan.ops[k].dst + plan.ops[k].size)
        /\ phase = "returned" => status = plan.status /\ status = ZX_ERR_BAD_STATE
  /\ (phase = "returned" /\ status = ZX_OK) => plan.status = ZX_OK

\* the second element of a vector of unions failed, four calls deep, after
\* the first one had been written
C14_Witness ==
  /\ call.name = "unknown_element_ordinal" /\ phase = "returned"
  /\ call.capacity = LargeCapacity
  /\ status = ZX_ERR_BAD_STATE /\ error_msg = "ordinal has no corresponding variant"
  /\ dst_origin[45] = "Copy" /\ dst_origin[33] = "none"

\* C19: a sibling starts where its predecessor's out-of-line data ends.  In
\* a vector of n unions (sandwich6_case8: elements at source 56 + 24 j and
\* destination 40 + 8 j) the payload of element j is read from its own 8
\* bytes behind the n elements; in a record of two vectors the data of the
\* second one is read and written behind the data of the first.
C19_SiblingOffsets ==
  /\ call.name = "sandwich6_case8" =>
        \A k \in 1..(ip - 1), j \in 0..(SrcU32(Env(call), 40) - 1) :
          (plan.ops[k].op = "Copy" /\ plan.ops[k].dst = 44 + 8 * j)
            => plan.ops[k].src = 56 + 24 * SrcU32(Env(call), 40) + 8 * j
  /\ call.name = "two_vectors" =>
        \A k \in 2..(ip - 1) :
          (plan.ops[k].op = "Copy" /\ plan.ops[k - 1] = CopyOp(Position(16, 0, 16, 0), 16))
            => /\ plan.ops[k].src = 32 + FIDL_ALIGN(SrcU32(Env(call), 0))
               /\ plan.ops[k].dst = 32 + FIDL_ALIGN(SrcU32(Env(call), 0))

\* the performed operations that wrote destination bytes behind the inline
\* part of the top-level record
OutOfLine ==
  { k \in Performed :
      /\ plan.ops[k].size > 0
      /\ plan.ops[k].dst >= FIDL_ALIGN(Types[Types[call.type].alt_type].size) }

\* C20: the destination's out-of-line data is written front to back: an
\* operation there starts at or behind the end of every earlier one, so
\* regions are disjoint and in traversal order, and one that does not
\* continue an earlier one starts a region, on an 8-byte boundary.
C20_Regions ==
  (Types[call.type].type_tag = "kFidlTypeStruct" /\ call.valid /\ WholeCall) =>
    /\ \A k, l \in OutOfLine :
          k < l => plan.ops[k].dst + plan.ops[k].size <= plan.ops[l].dst
    /\ \A k \in OutOfLine :
          (\A l \in OutOfLine : l < k => plan.ops[l].dst + plan.ops[l].size # plan.ops[k].dst)
            => plan.ops[k].dst % 8 = 0

\* C18: a call that reaches a table, an xunion or a union pointer returns
\* ZX_ERR_BAD_STATE, in either build, and has written nothing at or behind
\* the offset of that field.
C18_Unsupported ==
  (call.name \in { "has_table", "has_xunion", "has_union_pointer" } /\ Done) =>
    /\ phase = "returned"
    /\ status = ZX_ERR_BAD_STATE
    /\ \A k \in Performed : plan.ops[k].dst + plan.ops[k].size <= 8

\* no byte of the destination has been written
Untouched ==
  /\ dst_bytes = Rep(call.poison, call.capacity)
  /\ dst_origin = Rep("none", call.capacity)
  /\ dst_highest_offset = 0

\* the static union of an old SandwichN handed to the old-to-v1 direction:
\* its table, its variant, and where it and its xunion lie
OldUnion ==
  LET field == Types[call.type].fields[2]
      union == Types[field.type]
      tag == Value(SubSeq(call.src, field.offset + 1, field.offset + union.data_offset))
  IN [offset |-> field.offset, data_offset |-> union.data_offset,
      variant |-> union.fields[tag + 1],
      xunion |-> Types[Types[call.type].alt_type].fields[2].offset,
      out_of_line |-> Types[Types[call.type].alt_type].size]

\* the handles of the variant's payload: the tests' only variant with
\* handles is a vector of them, all present
HandlesOf(u) ==
  IF u.variant.type = "VectorOfHandle"
  THEN SrcU32(Env(call), u.offset + u.data_offset) ELSE 0

\* C13: an old-to-v1 call on a valid old SandwichN returns ZX_OK with the
\* v1 message of the tests: at the v1 offset of the union a 24-byte xunion
\* of the variant's ordinal, 4 zero bytes, num_bytes the 8-aligned size of
\* all that lies out of line, num_handles the handles of the payload (0
\* for a variant without handles) and presence PRESENT; the payload starts
\* at the out-of-line cursor, the v1 size of the record.
C13_OldToV1Union ==
  (/\ call.transformation = FIDL_TRANSFORMATION_OLD_TO_V1 /\ call.valid /\ IsSandwich
   /\ phase # "called" /\ Holds(Len(call.v1))) =>
    LET u == OldUnion
        xunion == SubSeq(dst_bytes, u.xunion + 1, u.xunion + 24)
    IN /\ phase = "returned" /\ status = ZX_OK
       /\ dst_num_bytes = Len(call.v1)
       /\ SubSeq(dst_bytes, 1, dst_num_bytes) = call.v1
       /\ SubSeq(xunion, 1, 4) = LE32(u.variant.xunion_ordinal)
       /\ SubSeq(xunion, 5, 8) = Zero(4)
       /\ Value(SubSeq(xunion, 9, 12)) = dst_num_bytes - u.out_of_line
       /\ Value(SubSeq(xunion, 9, 12)) % 8 = 0
       /\ Value(SubSeq(xunion, 13, 16)) = HandlesOf(u)
       /\ SubSeq(xunion, 17, 24) = FIDL_ALLOC_PRESENT
       /\ u.variant.type = "null" =>
             \E n \in 1..(dst_num_bytes - u.out_of_line) :
               SubSeq(dst_bytes, u.out_of_line + 1, u.out_of_line + n)
                 = SubSeq(call.src, u.offset + u.data_offset + 1, u.offset + u.data_offset + n)

\* the vector of handles of sandwich6_case5: the envelope counts them
C13_Witness ==
  /\ call.transformation = FIDL_TRANSFORMATION_OLD_TO_V1
  /\ call.name = "sandwich6_case5" /\ phase = "returned" /\ status = ZX_OK
  /\ dst_bytes[21] >= 1 /\ dst_bytes[57] = 255

\* C16: a call with direction NONE returns ZX_OK, reports length 0 and
\* leaves the destination as it was, whatever the type and the source.
C16_None ==
  (call.transformation = FIDL_TRANSFORMATION_NONE /\ phase # "called") =>
    /\ phase = "returned" /\ status = ZX_OK
    /\ dst_num_bytes = 0
    /\ Untouched

C16_Witness ==
  /\ call.transformation = FIDL_TRANSFORMATION_NONE /\ phase = "returned"
  /\ call.name = "sandwich1" /\ dst_num_bytes = 0

\* C17: a call with a direction that is none of the three, or with a
\* direction that transforms and a top-level type that is no record, ends
\* by returning ZX_ERR_INVALID_ARGS, the destination as it was.
C17_InvalidArgs ==
  (/\ \/ call.transformation \notin { FIDL_TRANSFORMATION_NONE, FIDL_TRANSFORMATION_V1_TO_OLD,
                                       FIDL_TRANSFORMATION_OLD_TO_V1 }
      \/ /\ call.transformation # FIDL_TRANSFORMATION_NONE
         /\ Types[call.type].type_tag # "kFidlTypeStruct"
   /\ phase \notin { "called", "running" }) =>
    /\ phase = "returned" /\ status = ZX_ERR_INVALID_ARGS
    /\ Untouched

\* a record nested inline in a record: the Sandwich1 of a Wrapped, where it
\* starts in the source and in the destination, and the sizes it has there
NestedRecord ==
  LET outer == Types[call.type]
      field == outer.fields[2]
      inner == Types[field.type]
      union == inner.fields[2]
  IN [S |-> field.offset,
      D |-> Types[outer.alt_type].fields[field.alt_field].offset,
      src_size |-> inner.size,
      dst_size |-> Types[inner.alt_type].size,
      src_union |-> union.offset,
      dst_union |-> Types[inner.alt_type].fields[union.alt_field].offset]

\* C21: a record transcoded at source offset S and destination offset D
\* reads a described field from S + src_field.offset and writes it at
\* D + dst_field.offset, and copies its raw regions from within the source
\* record to within the destination record: the Sandwich1 nested in Wrapped
\* (S = D = 8) has its ordinal read at 16 and its tag written at 12, and
\* the valid message comes out as its old form.
C21_NestedRecordOffsets ==
  call.name = "wrapped" =>
    LET r == NestedRecord IN
    /\ \A k \in 2..(ip - 1) :
          /\ plan.ops[k].op = "Read" => plan.ops[k].src = r.S + r.src_union
          /\ plan.ops[k].op = "Write" => plan.ops[k].dst = r.D + r.dst_union
          /\ (plan.ops[k].op = "Copy" /\ plan.ops[k].src < r.S + r.src_size) =>
                /\ r.S <= plan.ops[k].src
                /\ plan.ops[k].src + plan.ops[k].size <= r.S + r.src_size
                /\ r.D <= plan.ops[k].dst
                /\ plan.ops[k].dst + plan.ops[k].size <= r.D + r.dst_size
    /\ (Done /\ call.valid /\ WholeCall) => (Succeeded /\ cmp_payload(call.old))

\* the indices of the variant list that the scan of TransformUnion inspects
Inspected(src_coded_union, xunion_ordinal, env) ==
  LET stop == FindVariant(src_coded_union, xunion_ordinal, 0, env)
  IN 0..(IF stop <= src_coded_union.field_count THEN stop ELSE src_coded_union.field_count)

\* the ordinal of the union of a SandwichN has been read
OrdinalRead ==
  /\ IsSandwich /\ call.src_num_bytes = Len(call.src)
  /\ \E k \in 1..(ip - 1) : plan.ops[k] = ReadOp(Position(OuterUnion.src, 0, 0, 0), 4)

\* C22: the scan for the variant of an ordinal inspects the entries 0 ..
\* field_count - 1 of the variant list only, never the entry at index
\* field_count, and a scan that found no variant among them ends the call
\* with the status and the message of an unknown ordinal.
C22_ScanBounded ==
  OrdinalRead =>
    LET union == Types[OuterUnion.type]
        o == SrcU32(Env(call), OuterUnion.src)
    IN /\ union.field_count \notin Inspected(union, o, Env(call))
       /\ (~HasOrdinal(OuterUnion.type, o) /\ call.out_error_msg /\ Done) =>
             /\ phase = "returned"
             /\ status = ZX_ERR_BAD_STATE
             /\ error_msg = "ordinal has no corresponding variant"

\* the variant the ordinal of the union of a SandwichN selects, in the
\* table of the old union
SelectedVariant ==
  Types[Types[OuterUnion.type].alt_type].fields[
    VariantIndex(OuterUnion.type, SrcU32(Env(call), OuterUnion.src)) + 1]

\* the call is on a whole SandwichN whose union selects a raw variant
RawVariantCall ==
  /\ IsSandwich /\ WholeCall
  /\ HasOrdinal(OuterUnion.type, SrcU32(Env(call), OuterUnion.src))
  /\ SelectedVariant.type = "null"

\* C23: of the out-of-line payload of a union the call reads the bytes of
\* the selected variant only, at most the num_bytes of the envelope, and no
\* byte behind the source; a valid message with a variant smaller than the
\* payload area is transformed with ZX_OK, and the bytes of the payload
\* area behind the variant are zeros written by a pad.
C23_VariantBytesOnly ==
  RawVariantCall =>
    LET union == Types[Types[OuterUnion.type].alt_type]
        payload == Types[call.type].size
        num_bytes == SrcU32(Env(call), OuterUnion.src + 8)
        area == union.size - union.data_offset
        size == area - SelectedVariant.padding
        at == OuterUnion.dst + union.data_offset
    IN /\ \A k \in Performed :
             (plan.ops[k].op = "Copy" /\ plan.ops[k].src >= payload)
               => plan.ops[k].src + plan.ops[k].size <= payload + num_bytes
       /\ ~oob_read
       /\ (Done /\ call.valid) => Succeeded
       /\ Succeeded =>
             \A b \in (at + size + 1)..(at + area) :
               dst_origin[b] = "Pad" /\ dst_bytes[b] = 0

\* the vector the union of a v1 Sandwich6 holds as its variant: its header
\* is the first 16 bytes of the out-of-line data, its elements follow
VectorOfCall ==
  Types[Types[OuterUnion.type].fields[
          VariantIndex(OuterUnion.type, SrcU32(Env(call), OuterUnion.src)) + 1].type]

IsVectorCall ==
  /\ IsSandwich /\ WholeCall
  /\ HasOrdinal(OuterUnion.type, SrcU32(Env(call), OuterUnion.src))
  /\ Types[OuterUnion.type].fields[
       VariantIndex(OuterUnion.type, SrcU32(Env(call), OuterUnion.src)) + 1].type # "null"
  /\ VectorOfCall.type_tag = "kFidlTypeVector"
  /\ SrcBytes(Env(call), Types[call.type].size + 8, 8) = FIDL_ALLOC_PRESENT

\* the bytes an element of s bytes takes in a vector
ElementStride(s) == IF s <= 2 THEN s ELSE IF s <= 4 THEN 4 ELSE 8

\* the region of a vector whose 8-byte count has the words lo and hi, for
\* elements of s bytes; fits tells that it is smaller than 2^31 bytes
VectorRegion(lo, hi, s) ==
  [fits |-> hi = 0 /\ lo >= 0 /\ lo <= 268435455,
   size |-> IF hi = 0 /\ lo >= 0 /\ lo <= 268435455
            THEN ((lo * ElementStride(s) + 7) \div 8) * 8 ELSE 0]

\* C24: the elements of a present vector of count c, the count of the whole
\* 8-byte field, lie ElementStride(s) bytes apart and its region has
\* ceil_8(c * ElementStride(s)) bytes, the product not wrapped: a vector of
\* raw elements is copied as one region of that size, the elements of a
\* vector of records are read at the multiples of the stride below c.
C24_VectorRegion ==
  IsVectorCall =>
    LET data == Types[call.type].size + 16
        lo == SrcU32(Env(call), Types[call.type].size)
        hi == SrcU32(Env(call), Types[call.type].size + 4)
        s == VectorOfCall.element_size
        region == VectorRegion(lo, hi, s)
    IN \A k \in Performed :
         (plan.ops[k].op = "Copy" /\ plan.ops[k].src >= data) =>
           /\ region.fits
           /\ VectorOfCall.element = "null" =>
                plan.ops[k].src = data /\ plan.ops[k].size = region.size
           /\ (/\ VectorOfCall.element # "null"
               /\ Types[VectorOfCall.element].type_tag = "kFidlTypeStruct"
               /\ Types[VectorOfCall.element].field_count = 0) =>
                /\ plan.ops[k].size = s
                /\ \E j \in 0..(lo - 1) : plan.ops[k].src = data + j * ElementStride(s)

\* the array of records the call transcodes element by element: the data
\* of the vector of sandwich6_case3, the array of sandwich6_case6
HasElementArray == call.name \in { "sandwich6_case3", "sandwich6_case6" } /\ WholeCall

ElementArray ==
  LET payload == Types[call.type].size
      union == Types[Types[OuterUnion.type].alt_type]
      old == Types[Types[call.type].alt_type]
  IN IF call.name = "sandwich6_case3"
     THEN [element_count |-> SrcU32(Env(call), payload),
           element_size |-> VectorOfCall.element_size,
           src_stride |-> ElementStride(VectorOfCall.element_size),
           dst_stride |-> ElementStride(Types[VectorOfCall.alt_type].element_size),
           src |-> payload + 16,
           dst |-> old.size,
           dst_array_size |->
             VectorRegion(SrcU32(Env(call), payload), 0,
                          Types[VectorOfCall.alt_type].element_size).size]
     ELSE [element_count |-> VectorOfCall.array_size \div VectorOfCall.element_size,
           element_size |-> VectorOfCall.element_size,
           src_stride |-> VectorOfCall.element_size,
           dst_stride |-> Types[VectorOfCall.alt_type].element_size,
           src |-> payload,
           dst |-> OuterUnion.dst + union.data_offset,
           dst_array_size |-> Types[VectorOfCall.alt_type].array_size]

\* the plan's copies of the elements, in the order of the plan
ElementCopies ==
  SelectSeq(plan.ops, LAMBDA op : op.op = "Copy" /\ op.src >= ElementArray.src)

\* C25: an array with an element descriptor is transcoded element by
\* element in index order, each element followed by its padding of zeros,
\* and padded with zeros up to dst_array_size: the call returns ZX_OK, all
\* dst_array_size bytes from the array's destination offset on are written,
\* the spans of the elements hold the source elements and every other byte
\* of them is a 0 of a pad, whatever the source padding was; no pad has a
\* negative length.
C25_ArrayElements ==
  HasElementArray =>
    LET a == ElementArray IN
      /\ \A k \in 1..Len(plan.ops) : plan.ops[k].op = "Pad" => plan.ops[k].size >= 0
      /\ Len(ElementCopies) = a.element_count
      /\ \A j \in 1..a.element_count :
           /\ ElementCopies[j].src = a.src + (j - 1) * a.src_stride
           /\ ElementCopies[j].dst = a.dst + (j - 1) * a.dst_stride
           /\ ElementCopies[j].size = a.element_size
      /\ Done => Succeeded
      /\ Succeeded =>
           \A b \in 0..(a.dst_array_size - 1) :
             IF \E j \in 0..(a.element_count - 1) :
                  b >= j * a.dst_stride /\ b < j * a.dst_stride + a.element_size
             THEN /\ dst_origin[a.dst + b + 1] = "Copy"
                  /\ dst_bytes[a.dst + b + 1]
                       = SrcByte(Env(call),
                                 a.src + (b \div a.dst_stride) * a.src_stride
                                   + (b % a.dst_stride))
             ELSE dst_origin[a.dst + b + 1] = "Pad" /\ dst_bytes[a.dst + b + 1] = 0

\* two records of a vector, each followed by a padding byte 0xcc in the
\* source and by a 0 in the destination
C25_Witness ==
  /\ HasElementArray /\ call.name = "sandwich6_case3" /\ Succeeded
  /\ ElementArray.element_count = 2
  /\ SrcByte(Env(call), ElementArray.src + 3) = 204
  /\ SrcByte(Env(call), ElementArray.src + 7) = 204
  /\ dst_bytes[ElementArray.dst + 4] = 0 /\ dst_bytes[ElementArray.dst + 8] = 0

\* C26: a handle is copied as the 4 bytes of its slot wherever its
\* descriptor stands: the record HasHandle {uint32; handle; uint32} and the
\* vector<handle> of sandwich6_case5 are transformed with ZX_OK, the handle
\* of the record by one copy of 4 bytes from source offset 4 to destination
\* offset 4, and the output is the input's old form.
C26_HandleCopied ==
  (call.name \in { "has_handle", "sandwich6_case5" } /\ WholeCall) =>
    /\ Done => Succeeded /\ cmp_payload(call.old)
    /\ call.name = "has_handle" =>
         /\ \A k \in Performed :
              (plan.ops[k].op = "Copy" /\ plan.ops[k].src = 4) =>
                plan.ops[k].dst = 4 /\ plan.ops[k].size = 4
         /\ Succeeded => \A b \in 5..8 : dst_origin[b] = "Copy"

\* the xunion of the call's SandwichN has the ordinal 0 of the empty xunion
EmptyXUnion == IsSandwich /\ SrcU32(Env(call), OuterUnion.src) = 0

\* C27: a v1 union of ordinal 0 is not transformed: the call, given a place
\* for the error message, returns a status other than ZX_OK, also when a
\* variant of the descriptor has the xunion_ordinal 0.
C27_EmptyXUnionRejected ==
  (EmptyXUnion /\ call.out_error_msg /\ Done) => phase = "returned" /\ status # ZX_OK

\* the next operation of the call is a copy or a pad of no bytes
EmptyOp == Running /\ Op.op \in { "Copy", "Pad" } /\ Op.size = 0

\* C28: a copy and a pad of 0 bytes succeed and change nothing: the call
\* goes on with its next operation, no destination byte and no byte's
\* origin is changed and the high-water mark keeps its value.
C28_EmptyOpIsNoOp ==
  [][EmptyOp => /\ phase' = "running" /\ ip' = ip + 1
                /\ dst_bytes' = dst_bytes /\ dst_origin' = dst_origin
                /\ dst_highest_offset' = dst_highest_offset]_vars

\* the call ended in Transformer::SetError
EndedInSetError ==
  phase = "aborted" /\ ip <= Len(plan.ops) /\ plan.ops[ip].op = "SetError"

\* C29: with a null out_error_msg a call that detects an error stores the
\* message nowhere and goes on to return its status: it does not end in
\* SetError, a call that is over and has the error in its plan has returned
\* a status other than ZX_OK, and the message variable is set only for a
\* caller that passed one.
C29_NullErrorMessage ==
  /\ ~call.out_error_msg =>
       /\ ~EndedInSetError
       /\ error_msg = ""
       /\ (Done /\ ip <= Len(plan.ops) /\ plan.ops[ip].op = "SetError") =>
            phase = "returned" /\ status # ZX_OK
  /\ error_msg # "" => call.out_error_msg

\* the sum of the two 32-bit operands of a copy, taken without wrap-around,
\* is larger than the length of the source
BehindSource(src_inline_offset, size, src_num_bytes) ==
  \/ src_inline_offset < 0 \/ size < 0
  \/ size > src_num_bytes
  \/ src_inline_offset > src_num_bytes - size

\* C30: in the build that checks the source bounds of a copy, a copy whose
\* operands sum to more than the source length is rejected and copies
\* nothing, also when the 32-bit sum wraps to a small value: no destination
\* byte changes and no byte outside the source is read.
C30_CopyBoundsChecked ==
  [][(/\ Running /\ Op.op = "Copy" /\ ~call.ndebug
      /\ BehindSource(Op.src, Op.size, call.src_num_bytes))
       => /\ dst_bytes' = dst_bytes /\ dst_origin' = dst_origin
          /\ oob_read' = oob_read /\ overrun' = overrun]_vars

====
